---- MODULE Spec2Model ----
(***************************************************************************)
(* Job orchestrator (backend/jobs/services.py), worker scheduler           *)
(* (backend/jobs/management/commands/worker.py) and the job lifecycle      *)
(* views (backend/jobs/views.py) as one state machine.                     *)
(*                                                                         *)
(* The database rows are the shared state.  Every execution (a worker      *)
(* task or a web request) works on its own in-memory copy of the Job row   *)
(* and writes single columns back with save(update_fields=...), so a       *)
(* write never carries more than the columns the code names.               *)
(***************************************************************************)
EXTENDS Integers, Sequences, FiniteSets, TLC

\* ------------------------------------------------------------------ bounds
NumJobs == 2          \* Job rows in the database
MaxFiles == 2         \* files of a job (Job.total_files)
NumThreads == 2       \* executions alive at once (worker tasks + web requests)
NumScheds == 2        \* worker processes that may run side by side
MaxCycles == 2        \* the loop counter of a scheduler saturates here
MaxTotal == 50        \* total_files range of the progress formula on its own
OneJob == 1           \* jobs in the database when every request is open
MaxWeb == 1           \* reprocess requests being served at once
MaxDim == 6           \* widths and heights of images and targets, exhaustively
MaxLen == 3           \* characters of a file name given to _normalize_name
MaxUsed == 3          \* names already used when _ensure_unique_name is called

Jobs == 1..NumJobs
Threads == 1..NumThreads
Scheds == 1..NumScheds

\* ------------------------------------------------- Job.Status, JobFile.Status
PENDING == "PENDING"
PROCESSING == "PROCESSING"
PAUSED == "PAUSED"
CANCELED == "CANCELED"
DONE == "DONE"
FAILED == "FAILED"

JobStatus == {PENDING, PROCESSING, PAUSED, CANCELED, DONE, FAILED}
FileStatus == {PENDING, PROCESSING, DONE, FAILED}

\* ------------------------------------------------------------ error messages
MsgNone == ""
MsgPreset == "El preset del trabajo no existe."
MsgZip == "No se pudo generar el ZIP de resultados."
MsgHuman == "human_error_message"

\* ---------------------------------------------------------------- presets
BasePreset == "base"
CustomPreset == "custom"
PresetIds == {BasePreset, CustomPreset}

Min(a, b) == IF a < b THEN a ELSE b
Max(a, b) == IF a > b THEN a ELSE b

\* the value of an expression that is evaluated once and then named
The(S) == CHOOSE x \in S : TRUE

\* ------------------------------------------------ progress: int((p / t) * 100)
\* The code divides and multiplies in IEEE-754 binary64 and truncates.  A
\* double has a 53 bit significand: one leading bit and four limbs of 13 bits.
LimbBase == 8192
FracLimbs == 4

RECURSIVE Pow2(_)
Pow2(n) == IF n = 0 THEN 1 ELSE 2 * Pow2(n - 1)

\* smallest k with p * 2^k >= t  (p >= 1): p / t = x * 2^-k with 1 <= x < 2
RECURSIVE NormShift(_, _, _)
NormShift(p, t, k) == IF p * Pow2(k) >= t THEN k ELSE NormShift(p, t, k + 1)

\* long division: the next n limbs of r / t, most significant first, and the
\* remainder left over
RECURSIVE DivLimbs(_, _, _)
DivLimbs(r, t, n) ==
    IF n = 0 THEN [q |-> << >>, r |-> r]
    ELSE LET rest == DivLimbs((r * LimbBase) % t, t, n - 1)
         IN  [q |-> <<(r * LimbBase) \div t>> \o rest.q, r |-> rest.r]

Reverse(s) == [i \in 1..Len(s) |-> s[Len(s) + 1 - i]]

\* add c at limb i of the little-endian number m; the top limb keeps carries
RECURSIVE AddAt(_, _, _)
AddAt(m, i, c) ==
    IF c = 0 THEN m
    ELSE IF i = Len(m) THEN [m EXCEPT ![i] = @ + c]
    ELSE LET x == m[i] + c
         IN  AddAt([m EXCEPT ![i] = x % LimbBase], i + 1, x \div LimbBase)

\* fl(p / t) for 0 < p <= t: the significand, little-endian, round half even
FloatDiv(p, t) ==
    LET k == NormShift(p, t, 0)
        d == DivLimbs(p * Pow2(k) - t, t, FracLimbs)
        m == Reverse(<<1>> \o d.q)
        roundBit == (2 * d.r) \div t
        sticky == (2 * d.r) % t
        up == roundBit = 1 /\ (sticky # 0 \/ m[1] % 2 = 1)
    IN  [k |-> k, m |-> IF up THEN AddAt(m, 1, 1) ELSE m]

\* m * 100, limb by limb
RECURSIVE MulSmall(_, _, _, _)
MulSmall(m, f, i, carry) ==
    IF i = Len(m) THEN <<m[i] * f + carry>>
    ELSE LET x == m[i] * f + carry
         IN  <<x % LimbBase>> \o MulSmall(m, f, i + 1, x \div LimbBase)

\* fl(x * 100): the product rounded back to 53 bits (half even); the product
\* has 59 bits when its top limb is below 128 and 60 bits otherwise
FloatMul100(m) ==
    LET P == MulSmall(m, 100, 1, 0)
        h == IF P[Len(P)] < 128 THEN 64 ELSE 128
        rem == P[1] % h
        q0 == P[1] - rem
        up == rem > h \div 2 \/ (rem = h \div 2 /\ (q0 \div h) % 2 = 1)
        P0 == [P EXCEPT ![1] = q0]
    IN  IF up THEN AddAt(P0, 1, h) ELSE P0

\* job.progress = int((job.processed_files / job.total_files) * 100)
\*                if job.total_files else 0
Progress(p, t) ==
    IF t = 0 \/ p = 0 THEN 0
    ELSE LET x == FloatDiv(p, t)
             y == FloatMul100(x.m)
         IN  y[Len(y)] \div Pow2(x.k)

\* exact floor(p * 100 / t), for comparison
FloorPercent(p, t) == (p * 100) \div t

\* --------------------------------------- image geometry: binary64 arithmetic
\* A positive double is [m, e]: the integer M of the little-endian limbs m,
\* 2^52 <= M < 2^53, and the value M / 2^e.
RECURSIVE BitLen(_)
BitLen(n) == IF n = 0 THEN 0 ELSE 1 + BitLen(n \div 2)

\* P / 2^e as a double: P, an integer of 53 to 66 bits, is rounded to 53
\* significant bits, half even (sticky: digits below P that are not all
\* zero), and the bits rounded away are dropped
Norm(P, sticky, e) ==
    LET b == BitLen(P[Len(P)]) - 1
        h == Pow2(b)
        rem == IF h < LimbBase THEN P[1] % h ELSE P[1]
        odd == IF h < LimbBase THEN (P[1] \div h) % 2 = 1 ELSE P[2] % 2 = 1
        up == b > 0 /\ (2 * rem > h \/ (2 * rem = h /\ (sticky \/ odd)))
        P0 == [P EXCEPT ![1] = @ - rem]
        R == IF up THEN AddAt(P0, 1, h) ELSE P0
        M == [i \in 1..Len(R) |->
                IF i = Len(R) THEN R[i] \div h
                ELSE R[i] \div h + (R[i + 1] % h) * (LimbBase \div h)]
    IN  IF M[Len(M)] = 2 THEN [m |-> [M EXCEPT ![Len(M)] = 1], e |-> e - b - 1]
        ELSE [m |-> M, e |-> e - b]

RECURSIVE ScaleUp(_, _, _)
ScaleUp(n, d, s) == IF n <= d * Pow2(s) THEN s ELSE ScaleUp(n, d, s + 1)

\* n / float(d) for integers n, d >= 1
FloatQuot(n, d) ==
    The({Norm(x.m, FALSE, 52 + x.k - ScaleUp(n, d, 0)) :
           x \in {FloatDiv(n, d * Pow2(ScaleUp(n, d, 0)))}})

\* x * y for an integer 1 <= x < 8192 and a double y
FloatMulInt(x, y) == The({Norm(P, FALSE, y.e) : P \in {MulSmall(y.m, x, 1, 0)}})

\* a + b for doubles a, b whose exponents differ by less than 13
RECURSIVE BigAdd(_, _, _, _)
BigAdd(a, b, i, carry) ==
    IF i = Len(a) THEN <<a[i] + b[i] + carry>>
    ELSE LET x == a[i] + b[i] + carry
         IN  <<x % LimbBase>> \o BigAdd(a, b, i + 1, x \div LimbBase)

FloatAdd(a, b) ==
    LET lo == IF a.e >= b.e THEN a ELSE b
        hi == IF a.e >= b.e THEN b ELSE a
    IN  Norm(BigAdd(MulSmall(hi.m, Pow2(lo.e - hi.e), 1, 0), lo.m, 1, 0), FALSE, lo.e)

\* comparison and subtraction of limb sequences of one length
RECURSIVE BigGE(_, _, _)
BigGE(a, b, i) ==
    IF i = 0 THEN TRUE
    ELSE IF a[i] # b[i] THEN a[i] > b[i]
    ELSE BigGE(a, b, i - 1)

RECURSIVE BigSub(_, _, _, _)
BigSub(a, b, i, borrow) ==
    IF i = Len(a) THEN <<a[i] - b[i] - borrow>>
    ELSE LET x == a[i] - b[i] - borrow
         IN  IF x < 0 THEN <<x + LimbBase>> \o BigSub(a, b, i + 1, 1)
             ELSE <<x>> \o BigSub(a, b, i + 1, 0)

\* long division in base LimbBase.  M is a divisor of six limbs whose fifth
\* is at least LimbBase / 2 and whose sixth is 0, and r < M * LimbBase.
\* The digit c of the quotient of r by M is the one M * c fits under and
\* M * (c + 1) does not; it is at most two below the estimate est taken
\* from the two top limbs of r and the top limb of M.
DigitFits(r, M, c) == BigGE(r, MulSmall(M, c, 1, 0), Len(r))
DigitTaken(r, M, c) == [q |-> c, r |-> BigSub(r, MulSmall(M, c, 1, 0), 1, 0)]
DigitNear(r, M, est) ==
    The({DigitTaken(r, M, c) :
           c \in {c \in Max(0, est - 2)..est :
                    DigitFits(r, M, c) /\ (c = est \/ ~DigitFits(r, M, c + 1))}})
DivDigit(r, M) == DigitNear(r, M, Min(LimbBase - 1, (r[6] * LimbBase + r[5]) \div M[5]))

\* k more digits of the quotient, Q little-endian
RECURSIVE DivDigits(_, _, _, _)
DivDigits(r, M, Q, k) ==
    IF k = 0 THEN [q |-> Q, r |-> r]
    ELSE The({DivDigits(d.r, M, <<d.q>> \o Q, k - 1) :
                d \in {DivDigit(<<0>> \o SubSeq(r, 1, 5), M)}})

\* the double of the quotient d of x * 2^n by the significand of y
Quotient(d, n, y) ==
    Norm(SubSeq(d.q, 1, 5), \E i \in 1..Len(d.r) : d.r[i] # 0, n - y.e)

\* x * 2^(n mod 13) * 2^12 * LimbBase^2 in six limbs
Dividend(x, n) ==
    <<0, 0>> \o MulSmall(<<(x * Pow2(n % 13)) % LimbBase, (x * Pow2(n % 13)) \div LimbBase,
                           0, 0>>, 4096, 1, 0)

\* the quotient of x * 2^n by the significand of y, both scaled by 2^12 for
\* the estimate of the digits.  x * 2^(n mod 13) is below 2^26, so the
\* first two of the n div 13 digits are 0 and the division starts at the
\* third.
ShiftedDiv(x, y, n) ==
    The({Quotient(d, n, y) :
           d \in {DivDigits(Dividend(x, n), MulSmall(y.m, 4096, 1, 0) \o <<0>>, <<>>,
                            (n \div 13) - 2)}})

\* x / y for an integer 1 <= x < 8192 and a double y; the quotient of
\* x * 2^(108 - BitLen(x)) has 55 or 56 bits
FloatIntDiv(x, y) == The({ShiftedDiv(x, v, 108 - BitLen(x)) : v \in {y}})

\* the limbs i..Len(m) of m as one integer
RECURSIVE High(_, _)
High(m, i) == IF i > Len(m) THEN 0 ELSE m[i] + LimbBase * High(m, i + 1)

\* a double y >= 2^-12 split into its integer part and "has a fraction"
PartsOf(y) ==
    LET j == y.e \div 13
        cut == Pow2(y.e % 13)
        N == High(y.m, j + 1)
    IN  [int |-> N \div cut,
         frac |-> N % cut # 0 \/ \E i \in 1..Min(j, Len(y.m)) : y.m[i] # 0]
Parts(y) == The({PartsOf(v) : v \in {y}})

\* int(math.ceil(y)), int(y) and int(round(y)) (round half to even)
Ceil(y) == IF Parts(y).frac THEN Parts(y).int + 1 ELSE Parts(y).int
Trunc(y) == Parts(y).int
Round(y) ==
    LET whole == Parts(y).int
        twice == Parts([y EXCEPT !.e = @ - 1])
    IN  IF twice.int % 2 = 0 THEN whole
        ELSE IF twice.frac THEN whole + 1
        ELSE IF whole % 2 = 0 THEN whole
        ELSE whole + 1

\* --------------------------------------------------- image geometry (sizes)
\* Sizes are <<width, height>>; a target of <<0, 0>> is "no target size".
\* A crop fraction is <<n, d>>, the double float(n / d), or <<0, 1>> for 0.0.

\* int(round(f * size)) and int(round((f + g) * size))
Scaled(f, size) ==
    IF f[1] = 0 THEN 0 ELSE Round(FloatMulInt(size, FloatQuot(f[1], f[2])))

SumScaled(f, g, size) ==
    IF f[1] = 0 THEN Scaled(g, size)
    ELSE IF g[1] = 0 THEN Scaled(f, size)
    ELSE Round(FloatMulInt(size, FloatAdd(FloatQuot(f[1], f[2]), FloatQuot(g[1], g[2]))))

\* left = max(0, min(left, width - 1)) without its upper bound
ClampNearLoose(near, size) == Max(0, near)

\* lines 302-307: the clamps of the near and the far edge
ClampNear(near, size) == Max(0, Min(near, size - 1))
ClampFar(near, far, size) == Max(near + 1, Min(far, size))

\* the box with its near edges left and top
CropBox(W, H, crop, left, top) ==
    <<left, top, ClampFar(left, SumScaled(crop[1], crop[3], W), W),
                 ClampFar(top, SumScaled(crop[2], crop[4], H), H)>>

\* _apply_manual_crop: the box <<left, top, right, bottom>> handed to
\* image.crop for the fractions crop = <<x, y, w, h>>
_apply_manual_crop(W, H, crop) ==
    CropBox(W, H, crop, ClampNear(Scaled(crop[1], W), W), ClampNear(Scaled(crop[2], H), H))

\* the smaller quotient taken for the larger
CoverRatioMin(W, H, tw, th) == IF tw * H <= th * W THEN <<tw, W>> ELSE <<th, H>>

\* max(tw / float(W), th / float(H)) as the pair <<n, d>> it is the quotient
\* of; division is monotone, so the larger quotient is the one of the
\* larger fraction (equal fractions give equal doubles)
CoverRatio(W, H, tw, th) == IF tw * H >= th * W THEN <<tw, W>> ELSE <<th, H>>
ContainRatio(W, H, tw, th) == IF tw * H <= th * W THEN <<tw, W>> ELSE <<th, H>>

\* the second branch of _resize_cover with the crop left as large as the
\* resized image
FitAspectKept(rw, rh, tw, th) == <<rw, rh>>

\* the second branch always cropping the height to the width
FitAspectByWidth(rw, rh, tw, th) ==
    <<rw, Round(FloatIntDiv(rw, FloatQuot(tw, th)))>>

\* lines 385-394: the crop of either branch, never larger than the image
FitAspectCrop(rw, rh, target_aspect, wide) ==
    <<Min(IF wide THEN Round(FloatMulInt(rh, target_aspect)) ELSE rw, rw),
      Min(IF wide THEN rh ELSE Round(FloatIntDiv(rw, target_aspect)), rh)>>

\* _resize_cover, lines 382-398: the resized image does not reach the
\* target; it is cropped to the aspect of the target
FitAspect(rw, rh, tw, th) == FitAspectCrop(rw, rh, FloatQuot(tw, th), rw * th > tw * rh)

\* what _resize_cover returns: an image of the size out, and the note
CoverResult(out, note) == [width |-> out[1], height |-> out[2], note |-> note]

\* lines 375-398: the centred crop to the target, or to its aspect
CoverCrop(rw, rh, tw, th, note) ==
    CoverResult(IF rw >= tw /\ rh >= th THEN <<tw, th>> ELSE FitAspect(rw, rh, tw, th), note)

\* lines 367-373: the image itself when ratio == 1.0, else resized
CoverResize(W, H, tw, th, ratio, one, note) ==
    CoverCrop(IF one THEN W ELSE Ceil(FloatMulInt(W, ratio)),
              IF one THEN H ELSE Ceil(FloatMulInt(H, ratio)), tw, th, note)

\* lines 361-365: the ratio r[1] / r[2], set to 1.0 with the note when
\* capped
CoverCapped(W, H, tw, th, r, capped) ==
    CoverResize(W, H, tw, th, FloatQuot(r[1], r[2]), capped \/ r[1] = r[2], capped)

\* _resize_cover without the test of no_upscale at line 363
CoverUpscaled(W, H, tw, th, no_upscale) ==
    CoverCapped(W, H, tw, th, CoverRatio(W, H, tw, th), FALSE)

\* _resize_cover: the size of the image it returns and whether the
\* no-upscale note is set
_resize_cover(W, H, tw, th, no_upscale) ==
    CoverCapped(W, H, tw, th, CoverRatio(W, H, tw, th),
                no_upscale /\ CoverRatio(W, H, tw, th)[1] > CoverRatio(W, H, tw, th)[2])

\* lines 342-350: the image itself when ratio == 1.0, else resized
ContainResize(W, H, ratio, one, note) ==
    [width |-> IF one THEN W ELSE Max(1, Trunc(FloatMulInt(W, ratio))),
     height |-> IF one THEN H ELSE Max(1, Trunc(FloatMulInt(H, ratio))),
     note |-> note]

ContainCapped(W, H, r, capped) ==
    ContainResize(W, H, FloatQuot(r[1], r[2]), capped \/ r[1] = r[2], capped)

\* _resize_contain
_resize_contain(W, H, tw, th, no_upscale) ==
    ContainCapped(W, H, ContainRatio(W, H, tw, th),
                  no_upscale /\ ContainRatio(W, H, tw, th)[1] > ContainRatio(W, H, tw, th)[2])

\* the report of a resize r of the box
PrepareReport(r, box, resize_mode) ==
    [width |-> r.width, height |-> r.height, box |-> box,
     resize_mode |-> IF resize_mode = "cover" THEN "cover" ELSE "contain",
     no_upscale_applied |-> r.note]

\* the resize of what the manual crop left
PrepareResize(target, resize_mode, no_upscale, box) ==
    PrepareReport(IF resize_mode = "cover"
                  THEN _resize_cover(box[3] - box[1], box[4] - box[2],
                                     target[1], target[2], no_upscale)
                  ELSE _resize_contain(box[3] - box[1], box[4] - box[2],
                                       target[1], target[2], no_upscale), box, resize_mode)

\* _prepare_image: the size it returns, the box of the manual crop and the
\* report fields resize_mode and no_upscale_applied
_prepare_image(size, target, resize_mode, no_upscale, crop) ==
    IF target[1] = 0 \/ target[2] = 0
    THEN [width |-> size[1], height |-> size[2], box |-> <<0, 0, size[1], size[2]>>,
          resize_mode |-> "None", no_upscale_applied |-> FALSE]
    ELSE PrepareResize(target, resize_mode, no_upscale,
                       IF crop # <<>> THEN _apply_manual_crop(size[1], size[2], crop)
                       ELSE <<0, 0, size[1], size[2]>>)

\* ------------------------------------------------------------ file names
\* A string is the sequence of its characters.  "a'" and "A'" stand for the
\* accented letters U+00E1 and U+00C1, and Acute for U+0301, the combining
\* mark NFD splits off them (category Mn).
Acute == "'"
NFD(c) == IF c = "a'" THEN <<"a", Acute>> ELSE IF c = "A'" THEN <<"A", Acute>> ELSE <<c>>
Lower(c) == IF c = "A" THEN "a" ELSE IF c = "A'" THEN "a'" ELSE c

RECURSIVE RemoveAccents(_)
\* lines 1423-1426: NFD, then every character of category Mn dropped
RemoveAccents(text) ==
    IF text = <<>> THEN <<>>
    ELSE SelectSeq(NFD(Head(text)), LAMBDA c : c # Acute) \o RemoveAccents(Tail(text))

\* line 1428: text.lower()
LowerCase(text) == [i \in 1..Len(text) |-> Lower(text[i])]

RECURSIVE ReplaceSpaces(_, _)
\* line 1430: text.replace(' ', replace_spaces)
ReplaceSpaces(text, replace_spaces) ==
    IF text = <<>> THEN <<>>
    ELSE (IF Head(text) = " " THEN replace_spaces ELSE <<Head(text)>>)
             \o ReplaceSpaces(Tail(text), replace_spaces)

HasDoubleDash(text) == \E i \in 1..(Len(text) - 1) : text[i] = "-" /\ text[i + 1] = "-"

RECURSIVE ReplaceDoubleDash(_)
\* text.replace('--', '-'): one pass, left to right, without overlap
ReplaceDoubleDash(text) ==
    IF Len(text) < 2 THEN text
    ELSE IF text[1] = "-" /\ text[2] = "-"
         THEN <<"-">> \o ReplaceDoubleDash(SubSeq(text, 3, Len(text)))
         ELSE <<text[1]>> \o ReplaceDoubleDash(Tail(text))

RECURSIVE CollapseDashes(_)
\* lines 1432-1433: while '--' in text
CollapseDashes(text) ==
    IF HasDoubleDash(text) THEN CollapseDashes(ReplaceDoubleDash(text)) ELSE text

RECURSIVE LStrip(_, _)
LStrip(text, chars) ==
    IF text # <<>> /\ \E i \in 1..Len(chars) : chars[i] = Head(text)
    THEN LStrip(Tail(text), chars) ELSE text

RECURSIVE RStrip(_, _)
RStrip(text, chars) ==
    IF text # <<>> /\ \E i \in 1..Len(chars) : chars[i] = text[Len(text)]
    THEN RStrip(SubSeq(text, 1, Len(text) - 1), chars) ELSE text

\* line 1434: text.strip(replace_spaces or '-')
Strip(text, replace_spaces) ==
    LET chars == IF replace_spaces = <<>> THEN <<"-">> ELSE replace_spaces
    IN  RStrip(LStrip(text, chars), chars)

_normalize_name(value, lowercase, remove_accents, replace_spaces, collapse_dashes) ==
    LET t1 == IF remove_accents THEN RemoveAccents(value) ELSE value
        t2 == IF lowercase THEN LowerCase(t1) ELSE t1
        t3 == ReplaceSpaces(t2, replace_spaces)
        t4 == IF collapse_dashes THEN CollapseDashes(t3) ELSE t3
    IN  Strip(t4, replace_spaces)

RECURSIVE RFindDot(_, _)
\* str.rfind('.'): the last index of a dot, 0 when there is none
RFindDot(name, i) == IF i = 0 THEN 0 ELSE IF name[i] = "." THEN i ELSE RFindDot(name, i - 1)

\* Path(name).suffix and Path(name).stem, lines 530-531: the part from the
\* last dot on, when that dot is neither the first nor the last character
HasSuffix(name) == RFindDot(name, Len(name)) > 1 /\ RFindDot(name, Len(name)) < Len(name)
Suffix(name) == IF HasSuffix(name) THEN SubSeq(name, RFindDot(name, Len(name)), Len(name))
                ELSE <<>>
Stem(name) == IF HasSuffix(name) THEN SubSeq(name, 1, RFindDot(name, Len(name)) - 1)
              ELSE name

Digits == <<"0", "1", "2", "3", "4", "5", "6", "7", "8", "9">>
RECURSIVE Str(_)
Str(n) == IF n < 10 THEN <<Digits[n + 1]>> ELSE Str(n \div 10) \o <<Digits[(n % 10) + 1]>>

\* the candidate with the counter left at its first value
CandidateSecond(name, counter) == Stem(name) \o <<"-", "2">> \o Suffix(name)

\* line 534: f"{base}-{counter}{suffix}"
Candidate(name, counter) == Stem(name) \o <<"-">> \o Str(counter) \o Suffix(name)

\* ------------------------------------------------- variants of a file
\* A preset id is "" when unset; None stands for the None get_preset and
\* _resolve_effective_preset return.  The base catalog lists BasePreset
\* first; CustomPreset is a PresetCustom row.
None == "None"

\* _resolve_effective_preset, lines 1484-1494; known is the set of ids
\* get_preset resolves
_resolve_effective_preset(selected, preset, recommended, known) ==
    IF selected # "" THEN (IF selected \in known THEN selected ELSE None)
    ELSE IF preset # "" /\ preset \in known THEN preset
    ELSE IF recommended # "" THEN (IF recommended \in known THEN recommended ELSE None)
    ELSE BasePreset

\* the width, height and resize mode of the two presets of the model, and
\* lines 1451-1452: no target and 'contain' without a preset
PresetSize(id) == IF id = BasePreset THEN <<2, 2>>
                  ELSE IF id = CustomPreset THEN <<3, 2>> ELSE <<0, 0>>
PresetMode(id) == IF id = BasePreset THEN "cover" ELSE "contain"

\* _resolve_effective_formats and _resolve_primary_format, lines 1506-1529,
\* for a file without recommended formats
EffectiveFormats(file, fallback_format) ==
    IF file.output_formats # <<>> THEN file.output_formats
    ELSE IF file.output_format # "" THEN <<file.output_format>>
    ELSE <<fallback_format>>

PrimaryFormat(file, formats) ==
    IF file.output_format # "" /\ \E i \in 1..Len(formats) : formats[i] = file.output_format
    THEN file.output_format
    ELSE formats[1]

\* lines 652-661: sharpened is dropped under 2x, and the scales to render
Sharpened(file) == file.generate_sharpened /\ ~file.generate_2x
Scales(file) == IF file.generate_2x THEN <<"1x", "2x">> ELSE <<"1x">>

\* lines 672-673: int(round(base * scale)) for the scales 1.0, 2.0 and the
\* density scale 1.33 of "sharpened"
ScaledTarget(base, label, sharpened) ==
    IF base = 0 THEN 0
    ELSE IF label = "2x" THEN 2 * base
    ELSE IF sharpened THEN Round(FloatMulInt(base, FloatQuot(133, 100)))
    ELSE base

\* lines 713-731: the name of a variant before it is made unique; a name
\* is a sequence of tokens, "." being the only one that holds a dot
NameCandidate(file, preset_id, fmt, label) ==
    IF file.generate_2x
    THEN file.stem \o (IF preset_id = "" THEN <<>> ELSE <<"__", preset_id>>)
                   \o (IF label = "2x" THEN <<"__2x">> ELSE <<>>) \o <<".", fmt>>
    ELSE file.stem \o <<".", fmt>>

RECURSIVE UniqueFrom(_, _, _)
\* _ensure_unique_name: the loop of lines 533-537 from counter on
UniqueFrom(name, used, counter) ==
    IF Candidate(name, counter) \notin used THEN Candidate(name, counter)
    ELSE UniqueFrom(name, used, counter + 1)

_ensure_unique_name(name, used) == IF name \notin used THEN name ELSE UniqueFrom(name, used, 2)

\* lines 698-699 and 706-707: the variant is smaller than its target
Short(resized, tw, th) == tw # 0 /\ th # 0 /\ (resized.width < tw \/ resized.height < th)

\* lines 698-770 for the image resized, of the name name: acc holds notes,
\* used_names, output_variants, output_name and the note of report_meta
Emit(file, fmt, label, primary, acc, resized, tw, th, name) ==
    IF label = "2x" /\ Short(resized, tw, th)
    THEN [acc EXCEPT !.notes = @ \cup {"no_2x"}]
    ELSE [acc EXCEPT
            !.notes = IF Sharpened(file) /\ Short(resized, tw, th)
                      THEN @ \cup {"sharp_limited"} ELSE @,
            !.used = @ \cup {name},
            !.variants = Append(@, [name |-> name, format |-> fmt, scale |-> label,
                                    width |-> resized.width, height |-> resized.height]),
            !.output_name = IF label = "1x" /\ fmt = primary /\ @ = <<>> THEN name ELSE @,
            !.report_note =
                IF label = "1x" /\ fmt = primary /\ acc.output_name = <<>>
                THEN (IF resized.no_upscale_applied THEN {"no_upscale"} ELSE {})
                         \cup acc.notes
                         \cup (IF Sharpened(file) /\ Short(resized, tw, th)
                               THEN {"sharp_limited"} ELSE {})
                ELSE @]

\* lines 684-696 and 713-735: the image for the target <<tw, th>> and its name
Sized(file, preset_id, fmt, label, primary, no_upscale, acc, tw, th) ==
    The({Emit(file, fmt, label, primary, acc, resized, tw, th,
              _ensure_unique_name(NameCandidate(file, preset_id, fmt, label), acc.used)) :
           resized \in {_prepare_image(file.size, <<tw, th>>, PresetMode(preset_id),
                                       no_upscale, <<>>)}})

\* one turn of the loop, lines 668-770
Variant(file, preset_id, fmt, label, primary, no_upscale, acc) ==
    The({Sized(file, preset_id, fmt, label, primary, no_upscale, acc, target[1], target[2]) :
           target \in {<<ScaledTarget(PresetSize(preset_id)[1], label, Sharpened(file)),
                         ScaledTarget(PresetSize(preset_id)[2], label, Sharpened(file))>>}})

RECURSIVE Variants(_, _, _, _, _, _, _)
\* the loops over formats and scales: step counts the turns taken, format
\* by format and, within a format, scale by scale
Variants(file, preset_id, formats, primary, no_upscale, step, acc) ==
    IF step > Len(formats) * Len(Scales(file)) THEN acc
    ELSE The({Variants(file, preset_id, formats, primary, no_upscale, step + 1, next) :
                next \in {Variant(file, preset_id,
                                  formats[((step - 1) \div Len(Scales(file))) + 1],
                                  Scales(file)[((step - 1) % Len(Scales(file))) + 1],
                                  primary, no_upscale, acc)}})

\* lines 611-667: the loops start with the preset and the formats resolved
Run(file, preset_id, formats, no_upscale, used) ==
    Variants(file, IF preset_id = None THEN "" ELSE preset_id, formats,
             PrimaryFormat(file, formats), no_upscale, 1,
             [notes |-> IF file.generate_2x /\ file.generate_sharpened
                        THEN {"sharp_off"} ELSE {},
              used |-> used, variants |-> <<>>, output_name |-> <<>>,
              report_note |-> {}, preset |-> preset_id, formats |-> formats,
              primary |-> PrimaryFormat(file, formats)])

\* _process_job_file for a file of a job with the preset job_preset, with
\* used_names = used: what it saves on the file and the names it used
_process_job_file(file, job_preset, known, fallback_format, no_upscale, used) ==
    Run(file, _resolve_effective_preset(file.selected_preset_id, job_preset,
                                        file.recommended_preset_id, known),
        EffectiveFormats(file, fallback_format), no_upscale, used)

\* ------------------------------------------------------------------- state
VARIABLES
    jobs,         \* Job rows: id -> record of columns
    files,        \* JobFile rows of each job, in creation order
    catalog,      \* preset ids get_preset resolves
    concurrency,  \* AppSettings.concurrency
    lock,         \* row locks of the claim transaction: job -> scheduler or 0
    sched,        \* the worker processes (Command.handle)
    thr,          \* executions: worker tasks and web requests
    overrides,    \* generate_2x and generate_sharpened of each JobFile row
    image,        \* a call of _prepare_image: its arguments and its result
    naming,       \* calls of _normalize_name and _ensure_unique_name
    render        \* the files of a job as _process_job_file renders them

vars == <<jobs, files, catalog, concurrency, lock, sched, thr, overrides, image, naming, render>>

JobFields == {"preset", "status", "started_at", "finished_at", "progress",
              "total_files", "processed_files", "result_zip", "error_message"}

\* Job.objects.create(preset=preset, total_files=len(files))
NewJob(preset, n) ==
    [preset |-> preset, status |-> PENDING, started_at |-> FALSE,
     finished_at |-> FALSE, progress |-> 0, total_files |-> n,
     processed_files |-> 0, result_zip |-> FALSE, error_message |-> MsgNone]

\* JobFile.objects.create(job=job, ..., status=JobFile.Status.PENDING)
NewFile == [status |-> PENDING, error_message |-> MsgNone]

\* the defaults of models.py lines 83-84
NewOverrides == [generate_2x |-> FALSE, generate_sharpened |-> FALSE]

IdleThread ==
    [pc |-> "idle", kind |-> "none", job |-> 0, file |-> 0,
     mem |-> NewJob(BasePreset, 0), index |-> 0, errors |-> FALSE,
     failed |-> {}, job_files |-> <<>>]

\* job.save(update_fields=fields): only the named columns reach the row
Save(j, m, fields) ==
    [jobs EXCEPT ![j] = [f \in JobFields |-> IF f \in fields THEN m[f] ELSE @[f]]]

\* a job row can be written unless a claim transaction holds its lock
Writable(j) == lock[j] = 0

\* get_preset(preset_id): custom presets first, then the base catalog
get_preset(preset_id) == preset_id \in catalog

Rank(S, x) == Cardinality({y \in S : y < x}) + 1
IdleThreads == {t \in Threads : thr[t].pc = "idle"}
FirstIdle == CHOOSE t \in IdleThreads : \A u \in IdleThreads : t <= u

\* ---------------------------------------------------------------- scheduler
\* Command._get_concurrency: the setting clamped to 1..10
MinConcurrency == 1
MaxConcurrency == 10
_get_concurrency ==
    IF concurrency < MinConcurrency THEN MinConcurrency
    ELSE IF concurrency > MaxConcurrency THEN MaxConcurrency
    ELSE concurrency

PendingJobs == {j \in DOMAIN jobs : jobs[j].status = PENDING}

\* the query without its slice [:limit]
SelectPendingUnsliced(limit) == PendingJobs

\* .filter(status=PENDING).order_by('created_at')[:limit]; ids follow creation
SelectPending(limit) == {j \in PendingJobs : Rank(PendingJobs, j) <= limit}

\* a select without FOR UPDATE waits for nobody
SelectNoLock(s, rows) == TRUE

\* select_for_update(): the select waits while another transaction holds one
\* of the rows it wants
SelectForUpdate(s, rows) == \A j \in rows : lock[j] \in {0, s}

Bump(n) == Min(n + 1, MaxCycles)

\* the slots of a pass that ignores the tasks in flight
SlotsOfLimit(c, live) == c

\* the slots of a pass that keeps one of them free
SlotsBelowLimit(c, live) == Max(0, c - 1 - Cardinality(live))

\* worker.py line 34: slots = max(0, concurrency - len(futures))
Slots(c, live) == Max(0, c - Cardinality(live))

\* One pass of the while loop of Command.handle up to the select of
\* _next_jobs: prune finished futures, read the limit, resize the pool,
\* compute the slots and select the rows to claim.  A pass that claims
\* nothing also runs the exit test and the sleep.
Cycle(s) ==
    /\ sched[s].pc = "loop"
    /\ LET live == {t \in sched[s].futures : thr[t].pc # "done"}
           gone == sched[s].futures \ live
           c == _get_concurrency
           slots == Slots(c, live)
           rows == IF slots > 0 THEN SelectPending(slots) ELSE {}
       IN  /\ SelectForUpdate(s, rows)
           /\ thr' = [t \in Threads |-> IF t \in gone THEN IdleThread ELSE thr[t]]
           /\ lock' = [j \in Jobs |-> IF j \in rows THEN s ELSE lock[j]]
           /\ sched' = [sched EXCEPT ![s] =
                 [@ EXCEPT !.futures = live,
                           !.max_workers = c,
                           !.batch = rows,
                           !.cycles = Bump(@),
                           !.pc = IF rows # {} THEN "claiming"
                                  ELSE IF live = {} /\ sched[s].run_once THEN "exited"
                                  ELSE "loop"]]
    /\ UNCHANGED <<jobs, files, catalog, concurrency, overrides, image, naming, render>>

\* The update and commit of _next_jobs, then executor.submit for every job
\* returned, the exit test (futures is not empty now) and the sleep.
NextJobsUpdate(s) ==
    /\ sched[s].pc = "claiming"
    /\ LET rows == sched[s].batch
           idle == IdleThreads
           new == {t \in idle : Rank(idle, t) <= Cardinality(rows)}
           jobOf(t) == CHOOSE j \in rows : Rank(rows, j) = Rank(idle, t)
       IN  /\ Cardinality(idle) >= Cardinality(rows)
           /\ jobs' = [j \in DOMAIN jobs |->
                         IF j \in rows THEN [jobs[j] EXCEPT !.status = PROCESSING]
                         ELSE jobs[j]]
           /\ lock' = [j \in Jobs |-> IF j \in rows THEN 0 ELSE lock[j]]
           /\ thr' = [t \in Threads |->
                        IF t \in new
                        THEN [IdleThread EXCEPT !.pc = "submitted",
                                                !.kind = "worker",
                                                !.job = jobOf(t)]
                        ELSE thr[t]]
           /\ sched' = [sched EXCEPT ![s] =
                 [@ EXCEPT !.futures = @ \cup new, !.batch = {}, !.pc = "loop"]]
    /\ UNCHANGED <<files, catalog, concurrency, overrides, image, naming, render>>

\* ------------------------------------------------------------- orchestrator
Job(t) == thr[t].job
Mem(t) == thr[t].mem
FileCount(j) == Len(files[j])

\* Job.objects.filter(id=job_id).first(): the in-memory copy of a row.  The
\* columns process_job and reprocess_job_file assign before they read or save
\* them (started_at, finished_at, progress, processed_files) carry no
\* information in the copy and are kept at their defaults.
Load(row) ==
    [row EXCEPT !.started_at = FALSE, !.finished_at = FALSE,
                !.progress = 0, !.processed_files = 0]

\* Command._run_job: the task starts and loads its own copy of the row
RunJob(t) ==
    /\ thr[t].pc = "submitted"
    /\ thr' = [thr EXCEPT ![t] = [@ EXCEPT !.mem = Load(jobs[Job(t)]), !.pc = "entry"]]
    /\ UNCHANGED <<jobs, files, catalog, concurrency, lock, sched, overrides, image, naming, render>>

\* where the for loop over job.files.all() goes after file number `done`
LoopPc(done, n) == IF done < n THEN "refresh" ELSE "zip"

\* process_job, lines 60-83: the entry test on the in-memory status, the
\* preset lookup, and the reset that marks the job PROCESSING
PresetFailureUnstamped(m) ==
    [m EXCEPT !.status = FAILED, !.error_message = MsgPreset]

\* lines 64-66: the job fails for its missing preset
PresetFailure(m) ==
    [m EXCEPT !.status = FAILED, !.error_message = MsgPreset, !.finished_at = TRUE]

ProcessJobEntry(t) ==
    /\ thr[t].pc = "entry"
    /\ LET j == Job(t)
           m == Mem(t)
           failed == PresetFailure(m)
           reset == [m EXCEPT !.status = PROCESSING,
                              !.started_at = TRUE,
                              !.progress = 0,
                              !.processed_files = 0,
                              !.error_message = MsgNone]
       IN  IF m.status \in {PAUSED, CANCELED}
           THEN /\ thr' = [thr EXCEPT ![t] = [@ EXCEPT !.pc = "done"]]
                /\ UNCHANGED jobs
           ELSE IF ~get_preset(m.preset)
           THEN /\ Writable(j)
                /\ jobs' = Save(j, failed, {"status", "error_message", "finished_at"})
                /\ thr' = [thr EXCEPT ![t] = [@ EXCEPT !.mem = failed, !.pc = "done"]]
           ELSE /\ Writable(j)
                /\ jobs' = Save(j, reset, {"status", "started_at", "progress",
                                           "processed_files", "error_message"})
                /\ thr' = [thr EXCEPT ![t] =
                             [@ EXCEPT !.mem = reset, !.errors = FALSE, !.failed = {},
                                       !.index = 1,
                                       !.pc = LoopPc(0, FileCount(j))]]
    /\ UNCHANGED <<files, catalog, concurrency, lock, sched, overrides, image, naming, render>>

\* line 90, first iteration: job.files.all() is evaluated and every JobFile
\* of the job is held in memory from then on; line 91:
\* job.refresh_from_db(fields=['status'])
RefreshStatus(t) ==
    /\ thr[t].pc = "refresh"
    /\ thr' = [thr EXCEPT ![t] =
                 [@ EXCEPT !.mem = [@ EXCEPT !.status = jobs[Job(t)].status],
                           !.job_files = IF thr[t].index = 1 THEN overrides[Job(t)]
                                         ELSE @,
                           !.pc = "boundary"]]
    /\ UNCHANGED <<jobs, files, catalog, concurrency, lock, sched, overrides, image, naming, render>>

\* lines 92-101: the checkpoint before a file.  PAUSED and CANCELED return;
\* otherwise the file is marked PROCESSING.
CheckpointNoPause(status) == IF status = CANCELED THEN "canceled" ELSE "go"

\* lines 92 and 95: what the status read at the checkpoint decides
Checkpoint(status) ==
    IF status = PAUSED THEN "paused"
    ELSE IF status = CANCELED THEN "canceled"
    ELSE "go"

Boundary(t) ==
    /\ thr[t].pc = "boundary"
    /\ LET j == Job(t)
           m == Mem(t)
           canceled == [m EXCEPT !.finished_at = TRUE]
       IN  IF Checkpoint(m.status) = "paused"
           THEN /\ Writable(j)
                /\ jobs' = Save(j, m, {"status"})
                /\ thr' = [thr EXCEPT ![t] = [@ EXCEPT !.pc = "done"]]
                /\ UNCHANGED files
           ELSE IF Checkpoint(m.status) = "canceled"
           THEN /\ Writable(j)
                /\ jobs' = Save(j, canceled, {"status", "finished_at"})
                /\ thr' = [thr EXCEPT ![t] = [@ EXCEPT !.mem = canceled, !.pc = "done"]]
                /\ UNCHANGED files
           ELSE /\ files' = [files EXCEPT ![j][thr[t].index].status = PROCESSING]
                /\ thr' = [thr EXCEPT ![t] = [@ EXCEPT !.pc = "file"]]
                /\ UNCHANGED jobs
    /\ UNCHANGED <<catalog, concurrency, lock, sched, overrides, image, naming, render>>

\* the outcome of _process_job_file and _save_job_file_output on one file:
\* DONE with error_message '' or, on any exception, FAILED with the
\* humanized message
FileResult(ok) ==
    IF ok THEN [status |-> DONE, error_message |-> MsgNone]
    ELSE [status |-> FAILED, error_message |-> MsgHuman]

\* Progress over every pair of counters within the bounds, evaluated once
ProgressTable == [p \in 0..MaxTotal, t \in 0..MaxTotal |-> Progress(p, t)]

CountedLate(m, index) ==
    [m EXCEPT !.processed_files = index - 1,
              !.progress = Progress(index - 1, m.total_files)]

\* lines 130-131: the counters after file number index
Counted(m, index) ==
    [m EXCEPT !.processed_files = index,
              !.progress = ProgressTable[index, m.total_files]]

\* _process_job_file, lines 650-654 and 788-789: the flags it saves, from
\* the flags of the JobFile it holds
VariantFlags(jf) ==
    [generate_2x |-> jf.generate_2x,
     generate_sharpened |-> jf.generate_sharpened /\ ~jf.generate_2x]

\* lines 103-134: the pipeline for one file, then the counters.  The
\* pipeline saves the flags at line 793 (and again with the whole row at
\* line 821); one that fails has failed before or after that save.
ProcessFile(t) ==
    /\ thr[t].pc = "file"
    /\ Writable(Job(t))
    /\ \E ok, saved \in BOOLEAN :
         LET j == Job(t)
             i == thr[t].index
             m == Counted(Mem(t), i)
             jf == IF saved THEN VariantFlags(thr[t].job_files[i]) ELSE thr[t].job_files[i]
         IN  /\ ok => saved
             /\ files' = [files EXCEPT ![j][i] = FileResult(ok)]
             /\ overrides' = IF saved THEN [overrides EXCEPT ![j][i] = jf] ELSE overrides
             /\ jobs' = Save(j, m, {"processed_files", "progress"})
             /\ thr' = [thr EXCEPT ![t] =
                          [@ EXCEPT !.mem = m,
                                    !.job_files = [@ EXCEPT ![i] = jf],
                                    !.errors = @ \/ ~ok,
                                    !.failed = IF ok THEN @ ELSE @ \cup {i},
                                    !.index = i + 1,
                                    !.pc = LoopPc(i, FileCount(j))]]
    /\ UNCHANGED <<catalog, concurrency, lock, sched, image, naming, render>>

\* _build_zip: None when the job has no files, a path otherwise; it may raise
\* (zipOk = FALSE).  The result as process_job records it: the new archive,
\* or the error flag and message.
ZipOutcome(m, j, zipOk) ==
    IF ~zipOk THEN [m EXCEPT !.error_message = MsgHuman]
    ELSE IF FileCount(j) = 0 THEN [m EXCEPT !.error_message = MsgZip]
    ELSE [m EXCEPT !.result_zip = TRUE]

ZipFailed(j, zipOk) == ~zipOk \/ FileCount(j) = 0

FinalStatusDone(errors) == DONE

\* line 147
FinalStatus(errors) == IF errors THEN FAILED ELSE DONE

\* lines 136-149: the archive, the final status and the last save
BuildZipFinish(t) ==
    /\ thr[t].pc = "zip"
    /\ Writable(Job(t))
    /\ \E zipOk \in BOOLEAN :
         LET j == Job(t)
             errors == thr[t].errors \/ ZipFailed(j, zipOk)
             m == [ZipOutcome(Mem(t), j, zipOk) EXCEPT
                       !.status = FinalStatus(errors), !.finished_at = TRUE]
         IN  /\ jobs' = Save(j, m, {"status", "finished_at", "result_zip", "error_message"})
             /\ thr' = [thr EXCEPT ![t] =
                          [@ EXCEPT !.mem = m, !.errors = errors, !.pc = "done"]]
    /\ UNCHANGED <<files, catalog, concurrency, lock, sched, overrides, image, naming, render>>

\* ------------------------------------------------------ reprocess requests
WebThreads == {t \in Threads : thr[t].kind \in {"reprocess", "rfile"}}
WebFree == IdleThreads # {} /\ Cardinality(WebThreads) < MaxWeb

\* JobViewSet.reprocess up to the call of process_job: the view loads the
\* row, reprocess_job resets it to PENDING and resets every file, whatever
\* the status of the job was
ReprocessJob(j) ==
    /\ WebFree
    /\ Writable(j)
    /\ LET t == FirstIdle
           m == [Load(jobs[j]) EXCEPT !.status = PENDING,
                                !.started_at = FALSE,
                                !.finished_at = FALSE,
                                !.progress = 0,
                                !.processed_files = 0,
                                !.error_message = MsgNone]
       IN  /\ jobs' = Save(j, m, {"status", "started_at", "finished_at", "progress",
                                  "processed_files", "error_message"})
           /\ files' = [files EXCEPT ![j] = [i \in DOMAIN @ |-> NewFile]]
           /\ thr' = [thr EXCEPT ![t] =
                        [IdleThread EXCEPT !.kind = "reprocess", !.job = j,
                                           !.mem = m, !.pc = "entry"]]
    /\ UNCHANGED <<catalog, concurrency, lock, sched, overrides, image, naming, render>>

\* job_file_reprocess_view and reprocess_job_file, lines 154-173: a missing
\* preset raises before anything is written; otherwise the job is marked
\* PROCESSING and the file PROCESSING with its message cleared
ReprocessFileStart(j, f) ==
    /\ WebFree
    /\ f \in DOMAIN files[j]
    /\ LET t == FirstIdle
           m == [Load(jobs[j]) EXCEPT !.status = PROCESSING, !.started_at = TRUE]
       IN  IF ~get_preset(jobs[j].preset)
           THEN /\ thr' = [thr EXCEPT ![t] =
                             [IdleThread EXCEPT !.kind = "rfile", !.job = j, !.file = f,
                                                !.mem = Load(jobs[j]), !.pc = "raised"]]
                /\ UNCHANGED <<jobs, files>>
           ELSE /\ Writable(j)
                /\ jobs' = Save(j, m, {"status", "started_at"})
                /\ files' = [files EXCEPT ![j][f] =
                               [status |-> PROCESSING, error_message |-> MsgNone]]
                /\ thr' = [thr EXCEPT ![t] =
                             [IdleThread EXCEPT !.kind = "rfile", !.job = j, !.file = f,
                                                !.mem = m, !.job_files = overrides[j],
                                                !.pc = "rf_file"]]
    /\ UNCHANGED <<catalog, concurrency, lock, sched, overrides, image, naming, render>>

\* reprocess_job_file, lines 178-202: the pipeline on the one file; a failure
\* marks the file FAILED and is raised again
AfterFileSwallowed(ok) == "rf_zip"

\* line 202: `raise` ends reprocess_job_file; without it line 204 is next
AfterFile(ok) == IF ok THEN "rf_zip" ELSE "raised"

ReprocessFileRun(t) ==
    /\ thr[t].pc = "rf_file"
    /\ \E ok, saved \in BOOLEAN :
         LET j == Job(t)
             f == thr[t].file
             jf == IF saved THEN VariantFlags(thr[t].job_files[f]) ELSE thr[t].job_files[f]
         IN  /\ ok => saved
             /\ files' = [files EXCEPT ![j][f] = FileResult(ok)]
             /\ overrides' = IF saved THEN [overrides EXCEPT ![j][f] = jf] ELSE overrides
             /\ thr' = [thr EXCEPT ![t] = [@ EXCEPT !.job_files = [@ EXCEPT ![f] = jf],
                                                    !.pc = AfterFile(ok)]]
    /\ UNCHANGED <<jobs, catalog, concurrency, lock, sched, image, naming, render>>

\* lines 205-214: a failed archive fails the job
RfZipOutcome(m, j, zipOk) ==
    IF ~zipOk THEN [m EXCEPT !.status = FAILED, !.error_message = MsgHuman]
    ELSE IF FileCount(j) = 0 THEN [m EXCEPT !.status = FAILED, !.error_message = MsgZip]
    ELSE [m EXCEPT !.result_zip = TRUE]

\* reprocess_job_file, lines 204-222: the report rows, the archive and the
\* last save
ReprocessFileFinish(t) ==
    /\ thr[t].pc = "rf_zip"
    /\ Writable(Job(t))
    /\ \E zipOk \in BOOLEAN :
         LET j == Job(t)
             z == RfZipOutcome(Mem(t), j, zipOk)
             m == [z EXCEPT !.processed_files = FileCount(j),
                            !.progress = 100,
                            !.status = IF z.status # FAILED THEN DONE ELSE FAILED,
                            !.finished_at = TRUE]
         IN  /\ jobs' = Save(j, m, {"processed_files", "progress", "status",
                                    "finished_at", "result_zip", "error_message"})
             /\ thr' = [thr EXCEPT ![t] = [@ EXCEPT !.mem = m, !.pc = "done"]]
    /\ UNCHANGED <<files, catalog, concurrency, lock, sched, overrides, image, naming, render>>

\* the view answers (200, or 400 after an exception) and the request ends
Respond(t) ==
    /\ thr[t].kind \in {"reprocess", "rfile"}
    /\ thr[t].pc \in {"done", "raised"}
    /\ thr' = [thr EXCEPT ![t] = IdleThread]
    /\ UNCHANGED <<jobs, files, catalog, concurrency, lock, sched, overrides, image, naming, render>>

\* ------------------------------------------------------- lifecycle requests
\* The source states each view accepts (views.py lines 125, 135, 145, 157)
\* and the row it saves.
PauseAccepts(status) == status \in {PENDING, PROCESSING}
ResumeAccepts(status) == status = PAUSED
CancelAcceptsAny(status) == TRUE
CancelAccepts(status) == status \notin {DONE, FAILED, CANCELED}
DeleteAccepts(status) == status \notin {PENDING, PROCESSING, PAUSED}

PauseRow(row) == [row EXCEPT !.status = PAUSED]
ResumeRow(row) == [row EXCEPT !.status = PENDING]
CancelRow(row) == [row EXCEPT !.status = CANCELED, !.finished_at = TRUE]

\* JobViewSet.pause: accepted from PENDING or PROCESSING
Pause(j) ==
    /\ PauseAccepts(jobs[j].status)
    /\ Writable(j)
    /\ jobs' = [jobs EXCEPT ![j] = PauseRow(@)]
    /\ UNCHANGED <<files, catalog, concurrency, lock, sched, thr, overrides, image, naming, render>>

\* JobViewSet.resume: accepted from PAUSED
Resume(j) ==
    /\ ResumeAccepts(jobs[j].status)
    /\ Writable(j)
    /\ jobs' = [jobs EXCEPT ![j] = ResumeRow(@)]
    /\ UNCHANGED <<files, catalog, concurrency, lock, sched, thr, overrides, image, naming, render>>

\* JobViewSet.cancel: refused once DONE, FAILED or CANCELED
Cancel(j) ==
    /\ CancelAccepts(jobs[j].status)
    /\ Writable(j)
    /\ jobs' = [jobs EXCEPT ![j] = CancelRow(@)]
    /\ UNCHANGED <<files, catalog, concurrency, lock, sched, thr, overrides, image, naming, render>>

\* The same views with their answer kept: the request thread holds the row
\* as the view read it and ends at "ok" (200) or "error" (400).
LifecycleKinds == {"pause", "resume", "cancel", "delete_job"}

Accepts(req, status) ==
    IF req = "pause" THEN PauseAccepts(status)
    ELSE IF req = "resume" THEN ResumeAccepts(status)
    ELSE IF req = "cancel" THEN CancelAccepts(status)
    ELSE DeleteAccepts(status)

Request(t, req, j, code) ==
    [IdleThread EXCEPT !.kind = req, !.job = j, !.mem = jobs[j], !.pc = code]

\* pause, resume and cancel: the 400 answer, or the save of the new status
StatusView(j, req) ==
    /\ WebFree
    /\ req \in {"pause", "resume", "cancel"}
    /\ LET t == FirstIdle
       IN  IF Accepts(req, jobs[j].status)
           THEN /\ Writable(j)
                /\ jobs' = [jobs EXCEPT ![j] =
                              IF req = "pause" THEN PauseRow(@)
                              ELSE IF req = "resume" THEN ResumeRow(@)
                              ELSE CancelRow(@)]
                /\ thr' = [thr EXCEPT ![t] = Request(t, req, j, "ok")]
           ELSE /\ thr' = [thr EXCEPT ![t] = Request(t, req, j, "error")]
                /\ UNCHANGED jobs
    /\ UNCHANGED <<files, catalog, concurrency, lock, sched, overrides, image, naming, render>>

\* JobViewSet.delete_job: refused while PENDING, PROCESSING or PAUSED;
\* otherwise the blobs and the row go, and the file rows with it (cascade)
DeleteJob(j) ==
    /\ WebFree
    /\ LET t == FirstIdle
       IN  IF Accepts("delete_job", jobs[j].status)
           THEN /\ Writable(j)
                /\ jobs' = [k \in DOMAIN jobs \ {j} |-> jobs[k]]
                /\ files' = [k \in DOMAIN files \ {j} |-> files[k]]
                /\ overrides' = [k \in DOMAIN overrides \ {j} |-> overrides[k]]
                /\ thr' = [thr EXCEPT ![t] = Request(t, "delete_job", j, "ok")]
           ELSE /\ thr' = [thr EXCEPT ![t] = Request(t, "delete_job", j, "error")]
                /\ UNCHANGED <<jobs, files, overrides>>
    /\ UNCHANGED <<catalog, concurrency, lock, sched, image, naming, render>>

\* job_file_update_view, lines 361-371 and 403: the request body may carry
\* generate_2x and generate_sharpened; the values are assigned to the loaded
\* JobFile, the request is refused when both are set, and job_file.save()
\* writes the row otherwise.
OverrideKeys == {"generate_2x", "generate_sharpened"}
OverridePayloads == UNION {[K -> BOOLEAN] : K \in SUBSET OverrideKeys}

Assigned(jf, data) ==
    [k \in OverrideKeys |-> IF k \in DOMAIN data THEN data[k] ELSE jf[k]]

BothSetIgnored(jf) == FALSE

\* line 367
BothSet(jf) == jf.generate_2x /\ jf.generate_sharpened

job_file_update_view(j, f, data) ==
    /\ IdleThreads # {}
    /\ f \in DOMAIN files[j]
    /\ LET t == FirstIdle
           jf == Assigned(overrides[j][f], data)
           req(code) == [Request(t, "update", j, code) EXCEPT !.file = f,
                                                             !.job_files = <<jf>>]
       IN  IF BothSet(jf)
           THEN /\ thr' = [thr EXCEPT ![t] = req("error")]
                /\ UNCHANGED overrides
           ELSE /\ overrides' = [overrides EXCEPT ![j][f] = jf]
                /\ thr' = [thr EXCEPT ![t] = req("ok")]
    /\ UNCHANGED <<jobs, files, catalog, concurrency, lock, sched, image, naming, render>>

\* the view returns its Response and the request ends
Answer(t) ==
    /\ thr[t].kind \in LifecycleKinds \cup {"update"}
    /\ thr' = [thr EXCEPT ![t] = IdleThread]
    /\ UNCHANGED <<jobs, files, catalog, concurrency, lock, sched, overrides, image, naming, render>>

\* presets_custom_update, DELETE: a custom preset leaves the catalog while
\* jobs still name it
\* settings_view, views.py lines 199-222: a PUT or PATCH with a concurrency
\* inside 1..10 saves it; any other value is answered 400 and saves nothing
ConcurrencyAccepted(c) == 1 <= c /\ c <= 10
settings_view(c) ==
    /\ concurrency' = IF ConcurrencyAccepted(c) THEN c ELSE concurrency
    /\ concurrency' # concurrency
    /\ UNCHANGED <<jobs, files, catalog, lock, sched, thr, overrides, image, naming, render>>

DeletePreset ==
    /\ CustomPreset \in catalog
    /\ catalog' = catalog \ {CustomPreset}
    /\ UNCHANGED <<jobs, files, concurrency, lock, sched, thr, overrides, image, naming, render>>

\* ---------------------------------------------------------- _prepare_image
NoImage == [size |-> <<0, 0>>, target |-> <<0, 0>>, resize_mode |-> "None",
            no_upscale |-> FALSE, crop |-> <<>>, called |-> FALSE,
            out |-> [width |-> 0, height |-> 0, box |-> <<0, 0, 0, 0>>,
                     resize_mode |-> "None", no_upscale_applied |-> FALSE]]

\* a file is opened and _prepare_image is called on it
PrepareImage ==
    /\ image.size # <<0, 0>>
    /\ ~image.called
    /\ image' = [image EXCEPT !.called = TRUE,
                              !.out = _prepare_image(image.size, image.target,
                                                     image.resize_mode, image.no_upscale,
                                                     image.crop)]
    /\ UNCHANGED <<jobs, files, catalog, concurrency, lock, sched, thr, overrides, naming, render>>

\* ------------------------------------------ _normalize_name, _ensure_unique_name
DefaultOptions == [lowercase |-> TRUE, remove_accents |-> TRUE,
                   replace_spaces |-> <<"-">>, collapse_dashes |-> TRUE]
NoNaming == [kind |-> "none", value |-> <<>>, options |-> DefaultOptions, out |-> <<>>,
             used |-> {}, counter |-> 0]

\* _normalize_name is called on value, and again on what it returned; out
\* holds the values returned so far
NormalizeName ==
    /\ naming.kind = "normalize"
    /\ Len(naming.out) < 2
    /\ LET o == naming.options
           arg == IF naming.out = <<>> THEN naming.value ELSE naming.out[Len(naming.out)]
       IN  naming' = [naming EXCEPT !.out = Append(@, _normalize_name(arg, o.lowercase,
                                       o.remove_accents, o.replace_spaces, o.collapse_dashes))]
    /\ UNCHANGED <<jobs, files, catalog, concurrency, lock, sched, thr, overrides, image, render>>

\* _ensure_unique_name(value, used) is entered, lines 528-532; two calls are
\* made with the same arguments, one after the other
EnsureEnter ==
    /\ naming.kind = "unique"
    /\ Len(naming.out) < 2
    /\ naming.counter = 0
    /\ naming' = IF naming.value \notin naming.used
                 THEN [naming EXCEPT !.out = Append(@, naming.value)]
                 ELSE [naming EXCEPT !.counter = 2]
    /\ UNCHANGED <<jobs, files, catalog, concurrency, lock, sched, thr, overrides, image, render>>

\* one turn of the loop, lines 533-537
EnsureLoop ==
    /\ naming.kind = "unique"
    /\ naming.counter >= 2
    /\ LET candidate == Candidate(naming.value, naming.counter)
       IN  naming' = IF candidate \notin naming.used
                     THEN [naming EXCEPT !.out = Append(@, candidate), !.counter = 0]
                     ELSE [naming EXCEPT !.counter = @ + 1]
    /\ UNCHANGED <<jobs, files, catalog, concurrency, lock, sched, thr, overrides, image, render>>

\* ---------------------------------------------- the outputs of a job's files
\* A JobFile row as _process_job_file reads and writes it, with the preset
\* and the note of its report row, and notes, the local of that name when
\* the call returned.
NewRenderFile(stem, size) ==
    [stem |-> stem, size |-> size, selected_preset_id |-> "", recommended_preset_id |-> "",
     generate_2x |-> FALSE, generate_sharpened |-> FALSE, output_format |-> "",
     output_formats |-> <<>>, output_variants |-> <<>>, output_name |-> <<>>,
     processed |-> FALSE, applied_preset |-> "", report_note |-> {}, notes |-> {}]

NoRender == [preset |-> BasePreset, no_upscale |-> TRUE, files |-> <<>>,
             index |-> 0, used_names |-> {}]

\* the rows of a file after _process_job_file returned acc
Rendered(file, acc) ==
    [file EXCEPT !.output_variants = acc.variants, !.output_name = acc.output_name,
                 !.processed = TRUE, !.applied_preset = acc.preset,
                 !.report_note = acc.report_note, !.notes = acc.notes,
                 !.generate_sharpened = Sharpened(file),
                 !.output_formats = acc.formats, !.output_format = acc.primary]

\* process_job, lines 88-90: the loop over the files starts with no name used
RenderStart ==
    /\ render.files # <<>>
    /\ render.index = 0
    /\ get_preset(render.preset)
    /\ render' = [render EXCEPT !.index = 1, !.used_names = {}]
    /\ UNCHANGED <<jobs, files, catalog, concurrency, lock, sched, thr, overrides, image, naming>>

\* the index of the loop after the file at render.index
NextIndex == IF render.index = Len(render.files) THEN 0 ELSE render.index + 1

\* process_job, lines 100-125: the next file is processed, or it fails
\* before it has a name and keeps what it had
RenderFile ==
    /\ render.index >= 1
    /\ \E ok \in BOOLEAN :
         render' =
            IF ok
            THEN The({[render EXCEPT !.files[render.index] = Rendered(@, acc),
                                     !.used_names = acc.used, !.index = NextIndex] :
                        acc \in {_process_job_file(render.files[render.index], render.preset,
                                                   catalog, "webp", render.no_upscale,
                                                   render.used_names)}})
            ELSE [render EXCEPT !.index = NextIndex]
    /\ UNCHANGED <<jobs, files, catalog, concurrency, lock, sched, thr, overrides, image, naming>>

\* lines 175-177: the output_name of the other files
OtherNames(f) ==
    {render.files[g].output_name :
        g \in {h \in 1..Len(render.files) : h # f /\ render.files[h].output_name # <<>>}}

\* reprocess_job_file, lines 175-193: used_names is the output_name of the
\* other files
RenderReprocess(f) ==
    /\ f \in 1..Len(render.files)
    /\ get_preset(render.preset)
    /\ render' = The({[render EXCEPT !.files[f] = Rendered(@, acc)] :
                        acc \in {_process_job_file(render.files[f], render.preset, catalog,
                                                   "webp", render.no_upscale, OtherNames(f))}})
    /\ UNCHANGED <<jobs, files, catalog, concurrency, lock, sched, thr, overrides, image, naming>>

\* ---------------------------------------------------------- specifications
NewSched(on, once) ==
    [pc |-> IF on THEN "loop" ELSE "off", run_once |-> once, futures |-> {},
     max_workers |-> 0, batch |-> {}, cycles |-> 0]

\* the rows as JobViewSet.create leaves them: PENDING, counters 0, one to
\* maxn files, a preset the catalog resolves
InitRows(ids, presets, maxn) ==
    /\ \E n \in [ids -> 1..maxn], p \in [ids -> presets] :
         /\ jobs = [j \in ids |-> NewJob(p[j], n[j])]
         /\ files = [j \in ids |-> [i \in 1..n[j] |-> NewFile]]
         /\ overrides = [j \in ids |-> [i \in 1..n[j] |-> NewOverrides]]
    /\ catalog = PresetIds
    /\ lock = [j \in Jobs |-> 0]
    /\ thr = [t \in Threads |-> IdleThread]

\* the worker processes of `on` started, each with or without --once;
\* ThreadPoolExecutor(max_workers=self._get_concurrency())
InitScheds(on, modes) ==
    \E once \in [on -> modes] :
        sched = [s \in Scheds |->
                   IF s \in on
                   THEN [NewSched(TRUE, once[s]) EXCEPT !.max_workers = _get_concurrency]
                   ELSE NewSched(FALSE, FALSE)]

\* the steps of one task of the pool: _run_job and process_job
WorkerTask(t) ==
    \/ RunJob(t)
    \/ ProcessJobEntry(t)
    \/ RefreshStatus(t)
    \/ Boundary(t)
    \/ ProcessFile(t)
    \/ BuildZipFinish(t)

WorkerTasks == \E t \in Threads : WorkerTask(t)

WebTasks ==
    \E t \in Threads :
        \/ ReprocessFileRun(t)
        \/ ReprocessFileFinish(t)
        \/ Respond(t)

Lifecycle == \E j \in DOMAIN jobs : Pause(j) \/ Resume(j) \/ Cancel(j)

Reprocess ==
    \E j \in DOMAIN jobs :
        \/ ReprocessJob(j)
        \/ \E f \in 1..MaxFiles : ReprocessFileStart(j, f)

Scheduler == \E s \in Scheds : Cycle(s) \/ NextJobsUpdate(s)

\* Spec: one job of one to MaxFiles files under one worker process that
\* allows two tasks, with the lifecycle requests and the loss of the preset
Init ==
    /\ InitRows(1..OneJob, {CustomPreset}, MaxFiles)
    /\ image = NoImage
    /\ naming = NoNaming
    /\ render = NoRender
    /\ concurrency = 2
    /\ InitScheds({1}, {FALSE})

Next == Scheduler \/ WorkerTasks \/ Lifecycle \/ DeletePreset

Spec == Init /\ [][Next]_vars

\* SpecClaim: every worker process running, with or without --once, over
\* NumJobs single-file jobs, with pause and cancel requests
InitClaim ==
    /\ InitRows(Jobs, {BasePreset}, 1)
    /\ image = NoImage
    /\ naming = NoNaming
    /\ render = NoRender
    /\ concurrency \in 1..2
    /\ InitScheds(Scheds, BOOLEAN)

NextClaim == Scheduler \/ WorkerTasks \/ \E j \in DOMAIN jobs : Pause(j) \/ Cancel(j)

SpecClaim == InitClaim /\ [][NextClaim]_vars

\* SpecWeb: no worker process; the reprocess requests act on the rows
InitWeb ==
    /\ InitRows(1..OneJob, {CustomPreset}, MaxFiles)
    /\ image = NoImage
    /\ naming = NoNaming
    /\ render = NoRender
    /\ concurrency = 2
    /\ InitScheds({}, {FALSE})

NextWeb ==
    \/ Reprocess
    \/ WebTasks
    \/ \E t \in Threads : ProcessJobEntry(t) \/ RefreshStatus(t) \/ Boundary(t)
                          \/ ProcessFile(t) \/ BuildZipFinish(t)
    \/ Lifecycle
    \/ DeletePreset

SpecWeb == InitWeb /\ [][NextWeb]_vars

\* SpecProgress: the counters of lines 130-132 on their own.  A job of
\* 1..MaxTotal files whose first i-1 files are DONE, its task about to run
\* the pipeline on file i; the runs start where the progress saved so far is
\* the exact percentage.
RunningJob(n, i) ==
    [NewJob(BasePreset, n) EXCEPT !.status = PROCESSING, !.started_at = TRUE,
                                  !.processed_files = i - 1,
                                  !.progress = Progress(i - 1, n)]

InitProgress ==
    \E n \in 1..MaxTotal : \E i \in 1..n :
        /\ Progress(i - 1, n) = FloorPercent(i - 1, n)
        /\ jobs = [j \in {1} |-> RunningJob(n, i)]
        /\ files = [j \in {1} |->
                      [k \in 1..n |->
                         IF k < i THEN FileResult(TRUE)
                         ELSE IF k = i THEN [NewFile EXCEPT !.status = PROCESSING]
                         ELSE NewFile]]
        /\ overrides = [j \in {1} |-> [k \in 1..n |-> NewOverrides]]
        /\ image = NoImage
        /\ naming = NoNaming
        /\ render = NoRender
        /\ catalog = PresetIds
        /\ concurrency = 1
        /\ lock = [j \in Jobs |-> 0]
        /\ sched = [s \in Scheds |->
                      IF s = 1
                      THEN [NewSched(TRUE, FALSE) EXCEPT !.max_workers = 1, !.futures = {1},
                                                         !.cycles = 1]
                      ELSE NewSched(FALSE, FALSE)]
        /\ thr = [t \in Threads |->
                    IF t = 1
                    THEN [IdleThread EXCEPT !.pc = "file", !.kind = "worker", !.job = 1,
                                            !.index = i, !.mem = RunningJob(n, i),
                                            !.job_files = [k \in 1..n |-> NewOverrides]]
                    ELSE IdleThread]

NextProgress == \E t \in Threads : ProcessFile(t)

SpecProgress == InitProgress /\ [][NextProgress]_vars

\* SpecLimit: one worker process over NumJobs single-file jobs, the
\* concurrency setting below, inside and outside the range 1..10, with
\* pause and cancel requests
ConcurrencySettings == {0, 1, 2, 11}

InitLimit ==
    /\ InitRows(Jobs, {BasePreset}, 1)
    /\ image = NoImage
    /\ naming = NoNaming
    /\ render = NoRender
    /\ concurrency \in ConcurrencySettings
    /\ InitScheds({1}, {FALSE})

NextLimit == Scheduler \/ WorkerTasks \/ \E j \in DOMAIN jobs : Pause(j) \/ Cancel(j)

SpecLimit == InitLimit /\ [][NextLimit]_vars

\* SpecResize: one worker process over NumJobs single-file jobs while the
\* settings view changes the concurrency, with pause and resume requests
\* that make a job Pending again while its first task is in flight.
\* The while loop of Command.handle keeps passing (it sleeps and loops):
\* weak fairness of each scheduler.  The pool runs every task it was handed,
\* and a save that waits for the row lock of a claim is served when the claim
\* commits, however often the row is locked again: strong fairness of each
\* task.
ConcurrencyRequests == {0, 1, 2}

InitResize ==
    /\ InitRows(Jobs, {BasePreset}, 1)
    /\ image = NoImage
    /\ naming = NoNaming
    /\ render = NoRender
    /\ concurrency = 2
    /\ InitScheds({1}, {FALSE})

\* the pause requests of this specification reach a job before its first start
PauseBeforeStart(j) == ~jobs[j].started_at /\ Pause(j)

NextResize ==
    \/ Scheduler
    \/ WorkerTasks
    \/ \E c \in ConcurrencyRequests : settings_view(c)
    \/ \E j \in DOMAIN jobs : PauseBeforeStart(j) \/ Resume(j)

SpecResize ==
    /\ InitResize
    /\ [][NextResize]_vars
    /\ \A s \in Scheds : WF_vars(Cycle(s) \/ NextJobsUpdate(s))
    /\ \A t \in Threads : SF_vars(WorkerTask(t))

\* SpecFair: every worker process running, with or without --once, over
\* NumJobs single-file jobs, and no request from outside.  The
\* loop of Command.handle sleeps and passes again and the pool runs every
\* task it was handed: weak fairness of each scheduler and of each task.
InitFair ==
    /\ InitRows(Jobs, {BasePreset}, 1)
    /\ image = NoImage
    /\ naming = NoNaming
    /\ render = NoRender
    /\ concurrency \in 1..2
    /\ InitScheds(Scheds, BOOLEAN)

NextFair == Scheduler \/ WorkerTasks

SpecFair ==
    /\ InitFair
    /\ [][NextFair]_vars
    /\ \A s \in Scheds : WF_vars(Cycle(s) \/ NextJobsUpdate(s))
    /\ \A t \in Threads : WF_vars(WorkerTask(t))

\* SpecLifecycle: no worker process; the four lifecycle views act on jobs
\* found in any status.  StoredJob(status, n) is a row as the orchestrator
\* and the views leave it in that status, StoredFiles its file rows.
StoredJob(status, n) ==
    LET new == NewJob(BasePreset, n)
    IN  IF status = PENDING THEN new
        ELSE IF status = PROCESSING THEN [new EXCEPT !.status = PROCESSING, !.started_at = TRUE]
        ELSE IF status = PAUSED THEN [new EXCEPT !.status = PAUSED, !.started_at = TRUE]
        ELSE IF status = CANCELED THEN [new EXCEPT !.status = CANCELED, !.finished_at = TRUE]
        ELSE IF status = DONE
             THEN [new EXCEPT !.status = DONE, !.started_at = TRUE, !.finished_at = TRUE,
                              !.processed_files = n, !.progress = Progress(n, n),
                              !.result_zip = TRUE]
        ELSE [new EXCEPT !.status = FAILED, !.error_message = MsgPreset,
                         !.finished_at = TRUE]

StoredFiles(status, n) ==
    [i \in 1..n |-> IF status = DONE THEN FileResult(TRUE) ELSE NewFile]

InitLifecycle ==
    /\ \E st \in [Jobs -> JobStatus] :
         /\ jobs = [j \in Jobs |-> StoredJob(st[j], 1)]
         /\ files = [j \in Jobs |-> StoredFiles(st[j], 1)]
         /\ overrides = [j \in Jobs |-> <<NewOverrides>>]
    /\ image = NoImage
    /\ naming = NoNaming
    /\ render = NoRender
    /\ catalog = PresetIds
    /\ concurrency = 1
    /\ lock = [j \in Jobs |-> 0]
    /\ thr = [t \in Threads |-> IdleThread]
    /\ InitScheds({}, {FALSE})

NextLifecycle ==
    \/ \E j \in DOMAIN jobs : \E req \in {"pause", "resume", "cancel"} : StatusView(j, req)
    \/ \E j \in DOMAIN jobs : DeleteJob(j)
    \/ \E t \in Threads : Answer(t)

SpecLifecycle == InitLifecycle /\ [][NextLifecycle]_vars

\* SpecOverrides: no worker process; override updates of the two flags
\* against reprocess requests for the job and for single files
InitOverrides ==
    /\ InitRows(1..OneJob, {BasePreset}, MaxFiles)
    /\ image = NoImage
    /\ naming = NoNaming
    /\ render = NoRender
    /\ concurrency = 2
    /\ InitScheds({}, {FALSE})

NextOverrides ==
    \/ Reprocess
    \/ WebTasks
    \/ \E t \in Threads : ProcessJobEntry(t) \/ RefreshStatus(t) \/ Boundary(t)
                          \/ ProcessFile(t) \/ BuildZipFinish(t)
    \/ \E j \in DOMAIN jobs : \E f \in 1..MaxFiles : \E data \in OverridePayloads :
          job_file_update_view(j, f, data)
    \/ \E t \in Threads : Answer(t)

SpecOverrides == InitOverrides /\ [][NextOverrides]_vars

\* SpecImage: _prepare_image on its own.  Every size and target up to
\* MaxDim in both modes, with and without no-upscale, the sizes and the
\* target of the regression script, and manual crops of a few sizes.
Dims == 1..MaxDim
RegressionSizes == {<<2000, 1000>>, <<800, 400>>, <<1080, 1080>>, <<1200, 1100>>}
RegressionTarget == <<1080, 1080>>
CropSizes == {<<1, 1>>, <<3, 2>>, <<5, 7>>, <<400, 200>>}
CropFractions == {<<0, 1>>, <<1, 4>>, <<1, 3>>, <<1, 2>>, <<3, 4>>, <<1, 1>>, <<5, 4>>}

ImageCall(size, target, mode, nu, crop) ==
    [NoImage EXCEPT !.size = size, !.target = target, !.resize_mode = mode,
                    !.no_upscale = nu, !.crop = crop]

InitImage ==
    /\ InitRows({}, {BasePreset}, 1)
    /\ concurrency = 1
    /\ InitScheds({}, {FALSE})
    /\ naming = NoNaming
    /\ render = NoRender
    /\ \/ \E size \in Dims \X Dims, target \in (Dims \X Dims) \cup {<<0, 0>>},
             mode \in {"cover", "contain"}, nu \in BOOLEAN :
             image = ImageCall(size, target, mode, nu, <<>>)
       \/ \E size \in RegressionSizes, mode \in {"cover", "contain"}, nu \in BOOLEAN :
             image = ImageCall(size, RegressionTarget, mode, nu, <<>>)
       \/ \E size \in CropSizes, x, y, w, h \in CropFractions :
             image = ImageCall(size, <<2, 2>>, "cover", TRUE, <<x, y, w, h>>)

NextImage == PrepareImage

SpecImage == InitImage /\ [][NextImage]_vars

\* SpecNormalize: _normalize_name on every string of up to MaxLen characters
\* of NameChars, under every choice of the options.
NameChars == {"a", "A", "a'", " ", "-", "_"}
ReplaceStrings == {<<>>, <<"-">>, <<"_">>, <<"-", "-">>, <<"A">>, <<"_", " ">>}
Strings(n) == UNION {[1..k -> NameChars] : k \in 0..n}

InitNormalize ==
    /\ InitRows({}, {BasePreset}, 1)
    /\ concurrency = 1
    /\ InitScheds({}, {FALSE})
    /\ image = NoImage
    /\ render = NoRender
    /\ \E value \in Strings(MaxLen), lowercase, remove_accents, collapse_dashes \in BOOLEAN,
          replace_spaces \in ReplaceStrings :
          naming = [NoNaming EXCEPT !.kind = "normalize", !.value = value,
                       !.options = [lowercase |-> lowercase, remove_accents |-> remove_accents,
                                    replace_spaces |-> replace_spaces,
                                    collapse_dashes |-> collapse_dashes]]

NextNormalize == NormalizeName

SpecNormalize == InitNormalize /\ [][NextNormalize]_vars

\* SpecUnique: _ensure_unique_name on a few names and every set of up to
\* MaxUsed names taken among them and their first candidates.
Names == {<<"a">>, <<"a", ".", "b">>, <<".", "a">>, <<"a", "-", "2">>, <<"a", ".", "b", ".", "c">>}
UsedPool == Names \cup {Candidate(n, c) : n \in Names, c \in 2..(MaxUsed + 1)}
UsedSets == {u \in SUBSET UsedPool : Cardinality(u) <= MaxUsed}

InitUnique ==
    /\ InitRows({}, {BasePreset}, 1)
    /\ concurrency = 1
    /\ InitScheds({}, {FALSE})
    /\ image = NoImage
    /\ render = NoRender
    /\ \E name \in Names, used \in UsedSets :
          naming = [NoNaming EXCEPT !.kind = "unique", !.value = name, !.used = used]

NextUnique == EnsureEnter \/ EnsureLoop

\* the thread that called _ensure_unique_name keeps running
SpecUnique == InitUnique /\ [][NextUnique]_vars /\ WF_vars(NextUnique)

\* SpecRender: the outputs of a job of one or two files under process_job
\* and reprocess_job_file, with a custom preset that can be deleted.
RenderStems == {<<"x">>, <<"x", "-", "2">>}
RenderFormats == {<<>>, <<"webp", "png">>}
RenderFlags == {<<FALSE, FALSE>>, <<TRUE, FALSE>>, <<FALSE, TRUE>>}
RenderOutputs == {<<"", <<>>>>, <<"", <<"webp", "png">>>>, <<"png", <<"webp", "png">>>>}

\* one file under every choice of its overrides, or two files of which the
\* second has the stem of the first or the stem its second name would get
SingleFiles ==
    {<<[NewRenderFile(<<"x">>, <<3, 3>>) EXCEPT !.selected_preset_id = sel,
           !.recommended_preset_id = rec, !.generate_2x = flags[1],
           !.generate_sharpened = flags[2], !.output_format = out[1],
           !.output_formats = out[2]]>> :
        sel \in {"", CustomPreset}, rec \in {"", CustomPreset},
        flags \in RenderFlags, out \in RenderOutputs}
PairedFiles ==
    {<<[NewRenderFile(<<"x">>, <<3, 3>>) EXCEPT !.output_format = out[1],
           !.output_formats = out[2]],
       [NewRenderFile(stem, <<3, 3>>) EXCEPT !.output_formats = ofs]>> :
        out \in RenderOutputs, stem \in RenderStems, ofs \in RenderFormats}

InitRender ==
    /\ InitRows({}, {BasePreset}, 1)
    /\ concurrency = 1
    /\ InitScheds({}, {FALSE})
    /\ image = NoImage
    /\ naming = NoNaming
    /\ \/ \E fs \in SingleFiles, preset \in PresetIds, no_upscale \in BOOLEAN :
             render = [NoRender EXCEPT !.preset = preset, !.no_upscale = no_upscale,
                                       !.files = fs]
       \/ \E fs \in PairedFiles : render = [NoRender EXCEPT !.files = fs]

NextRender ==
    \/ RenderStart
    \/ RenderFile
    \/ \E f \in 1..MaxFiles : RenderReprocess(f)
    \/ DeletePreset

SpecRender == InitRender /\ [][NextRender]_vars

\* ------------------------------------------------------------------ claims
ClaimersOf(j) == {s \in Scheds : sched[s].pc = "claiming" /\ j \in sched[s].batch}
InPipeline == {"refresh", "boundary", "file", "zip", "rf_file", "rf_zip"}
Executions(j) == {t \in Threads : thr[t].job = j /\ thr[t].pc \in InPipeline}
LoopPcs == {"refresh", "boundary", "file", "zip"}

\* C1: claim transactions that are open at the same time hold disjoint sets
\* of jobs: a job is in the batch of at most one scheduler, and from the
\* select to the update of that scheduler the job stays PENDING under its
\* lock, so the update moves it from PENDING to PROCESSING for that
\* scheduler alone.
C1_ClaimsDisjoint ==
    \A j \in DOMAIN jobs :
        /\ Cardinality(ClaimersOf(j)) <= 1
        /\ \A s \in ClaimersOf(j) : jobs[j].status = PENDING /\ lock[j] = s

\* one scheduler holds a PENDING job between its select and its update while
\* another scheduler with a free slot is at its own select of the same row
C1_Witness ==
    \E s1, s2 \in Scheds :
        /\ s1 # s2
        /\ sched[s1].pc = "claiming"
        /\ sched[s2].pc = "loop" /\ sched[s2].futures = {}
        /\ \E j \in PendingJobs : lock[j] = s1 /\ j \in sched[s1].batch

\* C2: at most one execution of the file pipeline (process_job or
\* reprocess_job_file) is active for a job at any time.
C2_ExclusiveExecution ==
    \A j \in DOMAIN jobs : Cardinality(Executions(j)) <= 1

\* C3 as stated: a job that is DONE or FAILED has processed_files equal to
\* total_files.
C3_DoneMeansAllCounted ==
    \A j \in DOMAIN jobs :
        jobs[j].status \in {DONE, FAILED} => jobs[j].processed_files = jobs[j].total_files

\* C3 amended: within one execution of process_job the processed_files it
\* holds and saves never decreases after the reset at its start, and when the
\* execution ends its file loop and saves DONE or FAILED, the value it saved
\* last equals total_files.
C3_CountersPerExecution ==
    [][\A t \in Threads :
         /\ (thr[t].pc \in LoopPcs /\ thr'[t].pc \in LoopPcs \cup {"done"})
               => thr'[t].mem.processed_files >= thr[t].mem.processed_files
         /\ (thr[t].pc = "file" /\ thr'[t].pc # "file")
               => jobs'[Job(t)].processed_files = thr[t].index
         /\ (thr[t].pc = "zip" /\ thr'[t].pc = "done")
               => /\ jobs'[Job(t)].status \in {DONE, FAILED}
                  /\ thr'[t].mem.processed_files = thr'[t].mem.total_files
                  /\ thr'[t].mem.total_files = FileCount(Job(t))]_vars

\* an execution that ran its two files to the end
C3_Witness ==
    \E t \in Threads :
        /\ thr[t].pc = "done" /\ thr[t].index = 3
        /\ thr[t].mem.status \in {DONE, FAILED}
        /\ jobs[Job(t)].processed_files = 2 /\ jobs[Job(t)].total_files = 2

\* C4: for a job with files, 0 <= processed_files <= total_files and
\* progress = floor(processed_files * 100 / total_files).
C4_ProgressIsFloor ==
    \A j \in DOMAIN jobs :
        jobs[j].total_files > 0 =>
            /\ 0 <= jobs[j].processed_files
            /\ jobs[j].processed_files <= jobs[j].total_files
            /\ jobs[j].progress = FloorPercent(jobs[j].processed_files, jobs[j].total_files)

\* C5: the step on one file writes that file only, DONE or FAILED with the
\* humanized message, and goes on to the next file or, after the last one, to
\* the archive; the step that ends the job saves FAILED if and only if a file
\* of this execution failed or the archive failed, DONE otherwise, and stamps
\* finished_at.
C5_FailureIsolated ==
    [][\A t \in Threads :
         /\ (thr[t].pc = "file" /\ thr'[t].pc # "file")
               => LET j == Job(t)
                      i == thr[t].index
                  IN  /\ \A k \in DOMAIN files[j] : k # i => files'[j][k] = files[j][k]
                      /\ files'[j][i] \in {FileResult(TRUE), FileResult(FALSE)}
                      /\ thr'[t].index = i + 1
                      /\ thr'[t].pc = IF i < FileCount(j) THEN "refresh" ELSE "zip"
         /\ (thr[t].pc = "zip" /\ thr'[t].pc # "zip")
               => LET j == Job(t)
                      zipFailed == thr'[t].mem.error_message # MsgNone
                  IN  /\ thr'[t].pc = "done"
                      /\ jobs'[j].status =
                           IF thr[t].failed # {} \/ zipFailed THEN FAILED ELSE DONE
                      /\ jobs'[j].finished_at
                      /\ jobs'[j].error_message = thr'[t].mem.error_message
                      /\ zipFailed \/ jobs'[j].result_zip]_vars

\* file 1 failed, file 2 was still processed, the archive was built and the
\* job is FAILED
C5_Witness ==
    \E t \in Threads :
        /\ thr[t].pc = "done" /\ thr[t].failed = {1}
        /\ Job(t) \in DOMAIN jobs /\ FileCount(Job(t)) = 2
        /\ files[Job(t)][1].status = FAILED /\ files[Job(t)][2].status = DONE
        /\ jobs[Job(t)].status = FAILED /\ jobs[Job(t)].result_zip
        /\ jobs[Job(t)].error_message = MsgNone

\* C6: once the status of a job is CANCELED, no step changes it.
C6_CanceledTerminal ==
    [][\A j \in DOMAIN jobs : jobs[j].status = CANCELED => jobs'[j].status = CANCELED]_vars

\* C7: an execution that holds PAUSED or CANCELED at its entry returns and
\* writes nothing; one that read PAUSED or CANCELED at the checkpoint before
\* a file returns, leaves every file row and the counters, the progress and
\* the archive of the job as they are, leaves the status as read, and on
\* CANCELED stamps finished_at.
C7_CheckpointFrame ==
    [][\A t \in Threads :
         /\ (thr[t].pc = "entry" /\ thr[t].mem.status \in {PAUSED, CANCELED}
               /\ thr'[t] # thr[t])
               => thr'[t].pc = "done" /\ jobs' = jobs /\ files' = files
         /\ (thr[t].pc = "boundary" /\ thr[t].mem.status \in {PAUSED, CANCELED}
               /\ thr'[t] # thr[t])
               => LET j == Job(t)
                  IN  /\ thr'[t].pc = "done"
                      /\ files' = files
                      /\ jobs'[j] = [jobs[j] EXCEPT
                                       !.status = thr[t].mem.status,
                                       !.finished_at =
                                           IF thr[t].mem.status = CANCELED THEN TRUE ELSE @]
         ]_vars

\* paused before file 2: file 1 is counted, file 2 was never started
C7_Witness ==
    \E t \in Threads :
        /\ thr[t].pc = "done" /\ thr[t].index = 2 /\ thr[t].mem.status = PAUSED
        /\ Job(t) \in DOMAIN jobs /\ FileCount(Job(t)) = 2
        /\ jobs[Job(t)].status = PAUSED /\ jobs[Job(t)].processed_files = 1
        /\ ~jobs[Job(t)].finished_at /\ ~jobs[Job(t)].result_zip
        /\ files[Job(t)][2].status = PENDING

\* C8: process_job on a job whose preset does not resolve saves FAILED, the
\* fixed message and finished_at, and nothing else: the counters, the
\* progress, the archive and every file row stay as they are.
C8_MissingPresetFails ==
    [][\A t \in Threads :
         (thr[t].pc = "entry" /\ thr[t].mem.status \notin {PAUSED, CANCELED}
            /\ thr[t].mem.preset \notin catalog /\ thr'[t] # thr[t])
            => /\ thr'[t].pc = "done"
               /\ files' = files
               /\ jobs'[Job(t)] = [jobs[Job(t)] EXCEPT !.status = FAILED,
                                                       !.error_message = MsgPreset,
                                                       !.finished_at = TRUE]]_vars

\* a job failed for its preset, its files untouched
C8_Witness ==
    \E j \in DOMAIN jobs :
        /\ jobs[j].status = FAILED /\ jobs[j].error_message = MsgPreset
        /\ jobs[j].finished_at /\ ~jobs[j].result_zip
        /\ jobs[j].processed_files = 0 /\ jobs[j].progress = 0
        /\ \A i \in DOMAIN files[j] : files[j][i] = NewFile

\* C9: when the pipeline of reprocess_job_file fails, the file is FAILED with
\* the humanized message, the exception reaches the caller, the job row is
\* not written, and the request does nothing more than answer: no archive.
C9_ReprocessFileRaises ==
    [][\A t \in Threads :
         /\ (thr[t].pc = "rf_file" /\ thr'[t].pc # "rf_file"
               /\ files'[Job(t)][thr[t].file].status # DONE)
               => /\ files'[Job(t)][thr[t].file] = FileResult(FALSE)
                  /\ thr'[t].pc = "raised"
                  /\ jobs' = jobs
         /\ (thr[t].pc = "raised" /\ thr'[t] # thr[t])
               => thr'[t] = IdleThread /\ jobs' = jobs /\ files' = files]_vars

\* the raise left the file FAILED and the job PROCESSING without an archive
C9_Witness ==
    \E t \in Threads :
        /\ thr[t].pc = "raised" /\ thr[t].kind = "rfile"
        /\ files[Job(t)][thr[t].file] = FileResult(FALSE)
        /\ jobs[Job(t)].status = PROCESSING /\ ~jobs[Job(t)].result_zip

\* C10: a scheduler started with --once claims jobs in its first pass of
\* the loop only.
C10_OneShotClaimsOnce ==
    \A s \in Scheds :
        (sched[s].run_once /\ sched[s].pc = "claiming") => sched[s].cycles <= 1

\* C11: a pass of the scheduler loop reads the limit as the concurrency
\* setting clamped to 1..10, takes slots = max(0, limit - tasks in flight)
\* and selects exactly the min(slots, number of PENDING jobs) oldest PENDING
\* jobs; the update moves exactly those jobs from PENDING to PROCESSING, and
\* after the submits the tasks in flight do not exceed the limit read in
\* that pass.
C11_Limit ==
    IF concurrency < 1 THEN 1 ELSE IF concurrency > 10 THEN 10 ELSE concurrency

C11_ClaimsOldestUpToSlots ==
    [][\A s \in Scheds :
         /\ (sched[s].pc = "loop" /\ sched'[s] # sched[s]) =>
               LET slots == Max(0, C11_Limit - Cardinality(sched'[s].futures))
                   rows == sched'[s].batch
               IN  /\ sched'[s].max_workers = C11_Limit
                   /\ rows \subseteq PendingJobs
                   /\ Cardinality(rows) = Min(slots, Cardinality(PendingJobs))
                   /\ \A j \in rows : \A k \in PendingJobs \ rows : j < k
         /\ (sched[s].pc = "claiming" /\ sched'[s].pc = "loop") =>
               /\ \A j \in DOMAIN jobs :
                     (jobs[j].status # jobs'[j].status) <=>  j \in sched[s].batch
               /\ \A j \in sched[s].batch :
                     jobs[j].status = PENDING /\ jobs'[j].status = PROCESSING
               /\ Cardinality(sched'[s].futures) <= sched[s].max_workers
               /\ Cardinality(sched'[s].futures) =
                     Cardinality(sched[s].futures) + Cardinality(sched[s].batch)]_vars

\* a pass under the setting 0 (limit 1) that took the older of two PENDING
\* jobs
C11_Witness ==
    \E s \in Scheds :
        /\ concurrency = 0 /\ sched[s].max_workers = 1
        /\ sched[s].pc = "claiming" /\ sched[s].batch = {1}
        /\ 2 \in PendingJobs /\ lock[1] = s

\* C12: a lifecycle request is accepted exactly from its allowed source
\* states: pause from PENDING or PROCESSING (to PAUSED), resume from PAUSED
\* (to PENDING), cancel from a status that is not DONE, FAILED or CANCELED
\* (to CANCELED, with finished_at), delete from DONE, FAILED or CANCELED (the
\* job and its files go).  An accepted pause, resume or cancel changes
\* nothing else; a rejected request answers with an error and leaves the
\* job and its files as they were.
C12_Allowed(req) ==
    IF req = "pause" THEN {PENDING, PROCESSING}
    ELSE IF req = "resume" THEN {PAUSED}
    ELSE IF req = "cancel" THEN {PENDING, PROCESSING, PAUSED}
    ELSE {DONE, FAILED, CANCELED}

C12_Target(req) ==
    IF req = "pause" THEN PAUSED ELSE IF req = "resume" THEN PENDING ELSE CANCELED

C12_RequestsFromAllowedStates ==
    [][\A t \in Threads :
         (thr[t].pc = "idle" /\ thr'[t].kind \in LifecycleKinds) =>
            LET req == thr'[t].kind
                j == thr'[t].job
            IN  /\ j \in DOMAIN jobs
                /\ thr'[t].pc \in {"ok", "error"}
                /\ thr'[t].pc = "ok" <=> jobs[j].status \in C12_Allowed(req)
                /\ \A k \in DOMAIN jobs \ {j} :
                      k \in DOMAIN jobs' /\ jobs'[k] = jobs[k] /\ files'[k] = files[k]
                /\ thr'[t].pc = "error" => jobs' = jobs /\ files' = files
                /\ (thr'[t].pc = "ok" /\ req = "delete_job") =>
                      j \notin DOMAIN jobs' /\ j \notin DOMAIN files'
                /\ (thr'[t].pc = "ok" /\ req # "delete_job") =>
                      /\ files' = files
                      /\ jobs'[j].status = C12_Target(req)
                      /\ jobs'[j].finished_at = (req = "cancel" \/ jobs[j].finished_at)
                      /\ \A f \in JobFields \ {"status", "finished_at"} :
                            jobs'[j][f] = jobs[j][f]]_vars

\* job 1 was deleted after it was canceled, and a cancel of job 2, which is
\* DONE, has just been refused
C12_Witness ==
    \E t \in Threads :
        /\ 1 \notin DOMAIN jobs /\ 2 \in DOMAIN jobs
        /\ thr[t].kind = "cancel" /\ thr[t].pc = "error" /\ thr[t].job = 2
        /\ jobs[2] = StoredJob(DONE, 1)

\* C13 as stated: no persisted JobFile has generate_2x and
\* generate_sharpened both true, and an override update that leaves both set
\* is written with sharpened dropped and generate_2x kept, not refused.
C13_NoRowHasBoth ==
    \A j \in DOMAIN overrides : \A f \in DOMAIN overrides[j] :
        ~(overrides[j][f].generate_2x /\ overrides[j][f].generate_sharpened)

C13_UpdateStep(t) == thr[t].pc = "idle" /\ thr'[t].kind = "update"

C13_SharpenedDroppedOnWrite ==
    /\ []C13_NoRowHasBoth
    /\ [][\A t \in Threads :
            (C13_UpdateStep(t) /\ thr'[t].job_files[1].generate_2x
                              /\ thr'[t].job_files[1].generate_sharpened) =>
                /\ thr'[t].pc = "ok"
                /\ overrides'[thr'[t].job][thr'[t].file] =
                      [generate_2x |-> TRUE, generate_sharpened |-> FALSE]]_vars

\* C13, amended: no persisted JobFile has both flags true; an override
\* update that would leave both set is refused with an error and saves
\* nothing, any other update saves the flags as requested; a processing run
\* saves generate_2x as it held it and generate_sharpened only when
\* generate_2x is not set.
C13_ExclusiveFlags ==
    /\ []C13_NoRowHasBoth
    /\ [][\A t \in Threads :
            /\ C13_UpdateStep(t) =>
                  LET want == thr'[t].job_files[1]
                      both == want.generate_2x /\ want.generate_sharpened
                  IN  /\ thr'[t].pc = (IF both THEN "error" ELSE "ok")
                      /\ both => overrides' = overrides
                      /\ ~both => overrides' =
                            [overrides EXCEPT ![thr'[t].job][thr'[t].file] = want]
            /\ (thr[t].pc \in {"file", "rf_file"} /\ thr'[t] # thr[t]
                                                  /\ overrides' # overrides) =>
                  LET j == thr[t].job
                      f == IF thr[t].pc = "file" THEN thr[t].index ELSE thr[t].file
                      held == thr[t].job_files[f]
                  IN  overrides' = [overrides EXCEPT ![j][f] =
                        [generate_2x |-> held.generate_2x,
                         generate_sharpened |->
                            IF held.generate_2x THEN FALSE ELSE held.generate_sharpened]]]_vars

\* file 1 has generate_2x, and an update asking for generate_sharpened as
\* well has just been refused while a reprocess of the job is in its loop
C13_Witness ==
    \E t, u \in Threads :
        /\ thr[t].kind = "update" /\ thr[t].pc = "error" /\ thr[t].file = 1
        /\ thr[t].job_files[1].generate_2x /\ thr[t].job_files[1].generate_sharpened
        /\ overrides[thr[t].job][1].generate_2x
        /\ thr[u].kind = "reprocess" /\ thr[u].pc \in LoopPcs

\* ------------------------------------------------------- claims on geometry
Called(mode) == image.called /\ image.resize_mode = mode /\ image.target[1] > 0
                             /\ image.target[2] > 0
Uncropped == image.crop = <<>>

C15_LargeImageGetsTarget ==
    (Called("cover") /\ Uncropped /\ image.size[1] >= image.target[1]
                                 /\ image.size[2] >= image.target[2]) =>
        /\ image.out.width = image.target[1]
        /\ image.out.height = image.target[2]

\* a 6x5 input and a 3x2 target, upscaling allowed: the output is 3x2
C15_Witness ==
    /\ Called("cover") /\ ~image.no_upscale /\ Uncropped
    /\ image.size = <<6, 5>> /\ image.target = <<3, 2>>
    /\ image.out.width = 3 /\ image.out.height = 2

C16_Case ==
    /\ Called("cover") /\ image.no_upscale /\ Uncropped
    /\ image.size = <<2000, 1000>> /\ image.target = <<1080, 1080>>

C17_Case ==
    /\ Called("cover") /\ image.no_upscale /\ Uncropped
    /\ image.size = <<800, 400>> /\ image.target = <<1080, 1080>>

C18_RoundExact(n, d) ==
    LET q == n \div d
        r == n % d
    IN  IF 2 * r > d \/ (2 * r = d /\ q % 2 = 1) THEN q + 1 ELSE q

C18_Dyadic(f) == f[2] \in {1, 2, 4}

\* C18: the box of a manual crop satisfies 0 <= left < right <= W and
\* 0 <= top < bottom <= H for every input (at least 1x1); when the rounded
\* rectangle round(x*W), round(y*H), round((x+w)*W), round((y+h)*H) already
\* satisfies these bounds it is the box (checked against exact arithmetic
\* for fractions that are multiples of 1/4); (1/4, 1/4, 1/2, 1/2) on 400x200
\* gives (100, 50)-(300, 150).
C18_ManualCropBox ==
    (image.called /\ image.crop # <<>> /\ image.target # <<0, 0>>) =>
        LET W == image.size[1]
            H == image.size[2]
            c == image.crop
            b == image.out.box
            l == C18_RoundExact(c[1][1] * W, c[1][2])
            t == C18_RoundExact(c[2][1] * H, c[2][2])
            r == C18_RoundExact((c[1][1] * c[3][2] + c[3][1] * c[1][2]) * W,
                                c[1][2] * c[3][2])
            u == C18_RoundExact((c[2][1] * c[4][2] + c[4][1] * c[2][2]) * H,
                                c[2][2] * c[4][2])
        IN  /\ 0 <= b[1] /\ b[1] < b[3] /\ b[3] <= W
            /\ 0 <= b[2] /\ b[2] < b[4] /\ b[4] <= H
            /\ (\A i \in 1..4 : C18_Dyadic(c[i]) /\ l < r /\ r <= W /\ t < u /\ u <= H)
                  => b = <<l, t, r, u>>
            /\ (image.size = <<400, 200>> /\ c = <<<<1, 4>>, <<1, 4>>, <<1, 2>>, <<1, 2>>>>)
                  => b = <<100, 50, 300, 150>>

\* the degenerate crop x = y = 1, w = h = 0 of a 3x2 image is the last pixel
C18_Witness ==
    /\ image.called /\ image.size = <<3, 2>>
    /\ image.crop = <<<<1, 1>>, <<1, 1>>, <<0, 1>>, <<0, 1>>>>
    /\ image.out.box = <<2, 1, 3, 2>>

\* ---------------------------------------------------- claims on file names
\* C19: _normalize_name is idempotent: for every string and every fixed
\* choice of the options, normalising what it returned returns it unchanged.
C19_NormalizeIdempotent ==
    (naming.kind = "normalize" /\ Len(naming.out) = 2) => naming.out[2] = naming.out[1]

\* C20: _ensure_unique_name never returns a name that is in used, returns
\* the name itself when it is not in used, returns the same value for the
\* same arguments, and terminates: the counter never passes the number of
\* used names by more than two and both calls return.
C20_EnsureUnique ==
    /\ [](naming.kind = "unique" =>
            /\ \A i \in 1..Len(naming.out) :
                  /\ naming.out[i] \notin naming.used
                  /\ naming.value \notin naming.used => naming.out[i] = naming.value
                  /\ naming.out[i] = naming.out[1]
            /\ naming.counter <= Cardinality(naming.used) + 2)
    /\ <>(naming.kind = "unique" /\ Len(naming.out) = 2)

\* a.b, a-2.b and a-3.b are used: both calls return a-4.b
C20_Witness ==
    /\ naming.kind = "unique"
    /\ naming.value = <<"a", ".", "b">>
    /\ naming.used = {<<"a", ".", "b">>, <<"a", "-", "2", ".", "b">>, <<"a", "-", "3", ".", "b">>}
    /\ naming.out = <<<<"a", "-", "4", ".", "b">>, <<"a", "-", "4", ".", "b">>>>

\* ------------------------------------------------- claims, third group
C25_Case == Called("cover") /\ Uncropped
C25_Skew == image.out.width * image.target[2] - image.out.height * image.target[1]

\* C25: for every input size and target, the output of cover has exactly
\* the aspect ratio of the target, outW * targetH = outH * targetW, also
\* when no-upscale capped the scale and the target size is out of reach.
C25_ExactAspect == C25_Case => C25_Skew = 0

RenderedFiles == {f \in 1..Len(render.files) : render.files[f].processed}
C21_Preset(file) == IF file.applied_preset = None THEN "" ELSE file.applied_preset
C21_Has(file, fmt, label) ==
    \E i \in 1..Len(file.output_variants) :
        file.output_variants[i].format = fmt /\ file.output_variants[i].scale = label

\* the 2x target is set and the image _prepare_image returns for it was
\* held back by no-upscale and is smaller than that target on an axis
C21_Clamped(resized, tw, th) == resized.no_upscale_applied /\ Short(resized, tw, th)
C21_TooSmall(file) ==
    C21_Clamped(_prepare_image(file.size, <<2 * PresetSize(C21_Preset(file))[1],
                                            2 * PresetSize(C21_Preset(file))[2]>>,
                               PresetMode(C21_Preset(file)), render.no_upscale, <<>>),
                2 * PresetSize(C21_Preset(file))[1], 2 * PresetSize(C21_Preset(file))[2])

\* C21: when generate_2x is set and the result clamped by no-upscale is
\* smaller than the 2x target on either axis, the 2x variant is not emitted,
\* a note about the omission is recorded in the note of the file's result,
\* and the 1x variant of the same format is still produced.
C21_OmittedWithNote ==
    \A f \in RenderedFiles :
        (render.files[f].generate_2x /\ C21_TooSmall(render.files[f])) =>
            /\ "no_2x" \in render.files[f].report_note
            /\ \A i \in 1..Len(render.files[f].output_variants) :
                  /\ render.files[f].output_variants[i].scale # "2x"
                  /\ C21_Has(render.files[f], render.files[f].output_variants[i].format, "1x")
            /\ render.files[f].output_variants # <<>>

C22_Precedence(file, preset) ==
    IF file.selected_preset_id \in catalog THEN file.selected_preset_id
    ELSE IF preset \in catalog THEN preset
    ELSE IF file.recommended_preset_id \in catalog THEN file.recommended_preset_id
    ELSE BasePreset

C26_Emitted ==
    UNION {{<<f, i>> : i \in 1..Len(render.files[f].output_variants)} :
              f \in 1..Len(render.files)}

\* C26: after any sequence of process_job and reprocess_job_file on a job,
\* the names of all output variants of the job, primary and extra, across
\* all of its files, are pairwise distinct.
C26_NamesDistinct ==
    \A v, w \in C26_Emitted :
        v # w => render.files[v[1]].output_variants[v[2]].name
                    # render.files[w[1]].output_variants[w[2]].name



\* C23: partial progress is retained across pause and resume: while a job
\* stopped by a pause holds k processed files followed by files never started,
\* no step of the one execution that runs for it lowers processed_files below
\* k or marks one of its Done files as Processing again
C23_Running(j) == {t \in Threads : Job(t) = j /\ thr[t].pc \notin {"idle", "done"}}
C23_Processed(j) == {f \in 1..FileCount(j) : files[j][f].status \in {DONE, FAILED}}
C23_Stopped(j) ==
    /\ Cardinality(C23_Running(j)) <= 1
    /\ C23_Processed(j) # {}
    /\ \E k \in 1..(FileCount(j) - 1) :
         \A f \in 1..FileCount(j) : f \in C23_Processed(j) <=> f <= k
    /\ \A f \in 1..FileCount(j) : files[j][f].status # PROCESSING
C23_Counted(j) == jobs'[j].processed_files >= Cardinality(C23_Processed(j))
C23_DoneKept(j) ==
    \A f \in 1..FileCount(j) :
        files[j][f].status = DONE => files'[j][f].status # PROCESSING
C23_ProgressRetained ==
    [][\A j \in DOMAIN jobs : C23_Stopped(j) => C23_Counted(j) /\ C23_DoneKept(j)]_vars

\* C24: a pass that finds the limit lowered below the tasks in flight leaves
\* every one of them untouched and in flight and claims nothing; no pass
\* claims while the tasks in flight are not fewer than the limit it read; and
\* every task handed to the pool runs to its end
C24_InFlight(s) == {t \in sched[s].futures : thr[t].pc # "done"}
C24_Lowered(s) ==
    /\ sched[s].pc = "loop"
    /\ sched'[s] # sched[s]
    /\ sched'[s].max_workers < sched[s].max_workers
    /\ Cardinality(C24_InFlight(s)) > sched'[s].max_workers
C24_Kept(s) ==
    /\ \A t \in C24_InFlight(s) : thr'[t] = thr[t] /\ t \in sched'[s].futures
    /\ jobs' = jobs
C24_NoClaim(s) == sched'[s].batch = {} /\ sched'[s].pc = "loop"
C24_Full(s) ==
    /\ sched[s].pc = "loop"
    /\ sched'[s] # sched[s]
    /\ Cardinality(C24_InFlight(s)) >= sched'[s].max_workers
C24_ResizeKeepsInFlight ==
    /\ [][\A s \in Scheds :
            /\ C24_Lowered(s) => C24_Kept(s) /\ C24_NoClaim(s)
            /\ C24_Full(s) => C24_NoClaim(s)]_vars
    /\ \A t \in Threads : (thr[t].pc = "submitted") ~> (thr[t].pc = "done")

\* two tasks are in flight, a job is Pending again, and the limit stored is
\* below the size of the pool: the next pass is the resize of the claim
C24_Witness ==
    \E s \in Scheds :
        /\ sched[s].pc = "loop"
        /\ _get_concurrency < sched[s].max_workers
        /\ Cardinality(C24_InFlight(s)) > _get_concurrency
        /\ PendingJobs # {}

\* C27: a job is never left Processing with no execution active for it: a
\* job whose row says Processing has a task that is submitted or still inside
\* process_job or reprocess_job_file, one that has neither returned nor raised
C27_Active(j) ==
    {t \in Threads : Job(t) = j /\ thr[t].pc \notin {"idle", "done", "raised"}}
C27_ProcessingHasExecution ==
    \A j \in DOMAIN jobs : jobs[j].status = PROCESSING => C27_Active(j) # {}

\* C28: in every reachable state a job whose status is Done has all of its
\* files in status Done
C28_DoneJobHasDoneFiles ==
    \A j \in DOMAIN jobs :
        jobs[j].status = DONE => \A f \in 1..FileCount(j) : files[j][f].status = DONE

\* C29: a pause accepted before the last file of the job has started is never
\* lost: while the row says Paused and no execution has reached the last
\* file, no step turns Paused into Processing, Done or Failed
C29_LastStarted(j) ==
    \E t \in Threads :
        /\ Job(t) = j
        /\ \/ thr[t].pc = "zip"
           \/ thr[t].pc \in {"boundary", "file"} /\ thr[t].index >= FileCount(j)
C29_PauseKept ==
    [][\A j \in DOMAIN jobs :
         jobs[j].status = PAUSED /\ ~C29_LastStarted(j)
             => jobs'[j].status \notin {PROCESSING, DONE, FAILED}]_vars

\* C30: under fair scheduling and with no request from outside, every Pending
\* job is eventually claimed and eventually Done or Failed, and no job stays
\* Pending or Processing forever
C30_Claimed(j) == \E t \in Threads : Job(t) = j /\ thr[t].pc = "submitted"
C30_Finished(j) == jobs[j].status \in {DONE, FAILED}
C30_EveryJobFinishes ==
    \A j \in Jobs :
        /\ (jobs[j].status = PENDING) ~> C30_Claimed(j)
        /\ (jobs[j].status = PENDING) ~> C30_Finished(j)
        /\ <>[](jobs[j].status \notin {PENDING, PROCESSING})

\* every job was claimed by a pass and has ended, one Done and one Failed
C30_Witness ==
    /\ \A j \in Jobs : C30_Finished(j)
    /\ \E j \in Jobs : jobs[j].status = DONE
    /\ \E j \in Jobs : jobs[j].status = FAILED
    /\ \A t \in Threads : thr[t].pc \in {"idle", "done"}
    /\ \E s \in Scheds : sched[s].pc = "exited"

====
